---- MODULE Spec2Model ----
(***************************************************************************)
(* Position ledger and trade execution of AI-Trader.                       *)
(*                                                                         *)
(* The ledger is the file data/agent_data/<signature>/position/            *)
(* position.jsonl: one JSON object per line.  It is modelled as the        *)
(* sequence of the objects written, each a record with exactly the keys    *)
(* the writer put in it.  The three tool servers (tool_trade.py,           *)
(* tool_crypto_trade.py, tool_futures_trade.py) and BaseAgent share the    *)
(* file and the runtime configuration (SIGNATURE, TODAY_DATE, IF_TRADE).   *)
(*                                                                         *)
(* Dates are day numbers; day 1 is a Monday.  Amounts and prices are       *)
(* integers (the code's arithmetic is +, -, * and < on numbers).           *)
(***************************************************************************)
EXTENDS Integers, Sequences, FiniteSets, TLC

VARIABLES
    ledger,         \* lines of position.jsonl, in file order; <<>> = no file
    config,         \* runtime configuration: SIGNATURE, TODAY_DATE, IF_TRADE
    asset_type,     \* BaseAgent.asset_type
    trading_dates,  \* dates still to be presented by run_date_range
    pc,             \* run_date_range: "idle", "loop" (between sessions), "session"
    no_trade,       \* the no-trade marker records, in write order
    last,           \* the last call: operation, arguments, outcome
    hour,           \* run_date_range: the hour of the inner loop
    session_start   \* number of ledger lines when the session began; 0 outside

vars == <<ledger, config, asset_type, trading_dates, pc, no_trade, last, hour,
          session_start>>

----------------------------------------------------------------------------
(* Bounds of the model *)

\* most lines the ledger file is let grow to
MaxLedger == 3
\* most records the no-trade marker file is let grow to
MaxMarkers == 1
\* the last day of the calendar get_trading_dates is called over
MaxDay == 9
\* most no-trade markers the hourly run is let write
MaxRunMarkers == 16
\* keys of a price series the lookups are applied to
MaxSeries == 3

(* Configuration of the run (config file / constructor arguments) *)

\* BaseAgent.init_date: day 6 is a Saturday
InitDate == 6
\* END_DATE of the date range: day 8 is the next Monday
EndDate == 8
\* BaseAgent.initial_cash
InitialCash == 50
\* BaseAgent.signature
Signature == "test_agent"
\* get_config_value("SIGNATURE") when the key is not set
NoSignature == "None"
\* get_config_value("TODAY_DATE") when the key is not set: None, kept apart
\* from every day number
NoDate == 0
\* BaseAgent.stock_symbols: the symbols of the genesis snapshot
StockSymbols == {"ZS"}

\* every symbol a tool call is made with
Symbols == {"ZS", "MSFT", "ETH", "NQ1"}
AssetTypes == {"stock", "crypto", "futures"}
\* the quantities a tool call passes
Amounts == {1, 2}

(* Program constants *)

\* tools/crypto_tools.py: SUPPORTED_CRYPTOS (BTC has no price file here)
SUPPORTED_CRYPTOS == {"BTC", "ETH"}
\* tools/futures_tools.py and tool_futures_trade.py: SUPPORTED_FUTURES
SUPPORTED_FUTURES ==
    {"NQ1", "ES", "MES", "MNQ", "YM", "GC", "CL", "ZB", "ZS", "ZC", "ZW"}
\* the multiplier of a micro contract, a tenth of the one in force
contract_multiplier_micro == 20 \div 10
\* tool_futures_trade.py: contract_multiplier
contract_multiplier == 20
\* BaseAgent.run_date_range: for hour in range(9, 17)
FirstHour == 9
LastHour == 16

----------------------------------------------------------------------------
(* Python values *)

\* a call that returned v
Ok(v) == [tag |-> "ok", value |-> v]
\* a call that returned None
None == [tag |-> "none"]
\* a call that raised
Raise(e) == [tag |-> "raise", exc |-> e]

\* dict.get(k, default)
Get(d, k, default) == IF k \in DOMAIN d THEN d[k] ELSE default
\* dict assignment that drops the key when the value is 0
PutDroppingZero(d, k, v) ==
    [x \in (DOMAIN d \cup {k}) \ (IF v = 0 THEN {k} ELSE {}) |->
        IF x = k THEN v ELSE d[x]]

\* d[k] = v on a copy of d
Put(d, k, v) == [x \in (DOMAIN d) \cup {k} |-> IF x = k THEN v ELSE d[x]]

\* datetime.weekday(): Monday is 0
Weekday(d) == (d - 1) % 7

Max(S) == CHOOSE x \in S : \A y \in S : y <= x

----------------------------------------------------------------------------
(* Price files.  A timestamp key "YYYY-MM-DD HH:MM:SS" is <<day, second of  *)
(* the day>>; a date-only key "YYYY-MM-DD" is <<day, NoTime>>.              *)

Key(d, h, m) == <<d, h * 3600 + m * 60>>
\* data/convert_csv_to_json.py, data/get_crypto_prices.py: a bar of hour 0,
\* and every daily bar, is keyed by its date alone
NoTime == -1
KeyDate(k) == k[1]
KeyTime(k) == k[2]
\* int(dt_str.split(' ')[1].split(':')[0])
KeyHour(k) == k[2] \div 3600

Bar(o, c) == [open |-> o, close |-> c]

\* data/merged.jsonl: daily bars of the stocks, weekdays only
StockFile(symbol) ==
    IF symbol = "ZS" THEN (5 :> Bar(30, 31)) @@ (8 :> Bar(25, 32))
    ELSE IF symbol = "MSFT" THEN (5 :> Bar(10, 11)) @@ (8 :> Bar(25, 12))
    ELSE <<>>

\* data/crypto_prices_<symbol>.json: hourly bars; the file ends on day 7
CryptoFile(symbol) ==
    IF symbol = "ETH"
    THEN (Key(6, 23, 0) :> Bar(22, 23)) @@ (Key(7, 9, 0) :> Bar(20, 21))
         @@ (Key(7, 10, 0) :> Bar(25, 26))
    ELSE <<>>

\* data/future_prices_<symbol>.json: intraday bars; NQ1 has none on day 7
FuturesFile(symbol) ==
    IF symbol = "NQ1"
    THEN (Key(5, 16, 0) :> Bar(1, 3)) @@ (Key(8, 9, 30) :> Bar(1, 3))
         @@ (Key(8, 16, 0) :> Bar(2, 3))
    ELSE IF symbol = "ZS"
    THEN (Key(7, 9, 30) :> Bar(1, 2)) @@ (Key(8, 9, 30) :> Bar(1, 2))
    ELSE <<>>

----------------------------------------------------------------------------
(* tools/price_tools.py: get_open_prices.  The dict it returns has the key *)
(* "<symbol>_price" exactly when the symbol has a bar on the date.         *)

get_open_prices(today_date, symbol) ==
    IF today_date \in DOMAIN StockFile(symbol)
    THEN Ok(StockFile(symbol)[today_date].open)
    ELSE Raise("KeyError")

(* tools/crypto_tools.py *)

\* load_crypto_price_data without the check of the symbol
load_crypto_price_data_unchecked(crypto_symbol) ==
    Ok(CryptoFile(crypto_symbol))

load_crypto_price_data(crypto_symbol) ==
    IF crypto_symbol \notin SUPPORTED_CRYPTOS
    THEN Raise("ValueError")
    ELSE Ok(CryptoFile(crypto_symbol))

\* get_crypto_price_on_date once the series is loaded, hour is None: the bar
\* of the latest hour of the date
crypto_price_on_date_in(data, target_date, price_type) ==
    LET onDate == {x \in DOMAIN data : KeyDate(x) = target_date}
        hours == {KeyHour(k) : k \in onDate}
        latest_hour == IF hours = {} THEN -1 ELSE Max(hours)
        target_datetime_str == <<target_date, latest_hour * 3600>>
    IN  IF target_date = NoDate /\ DOMAIN data # {}
        THEN Raise("TypeError")   \* dt_str.startswith(None)
        ELSE IF \E k \in onDate : KeyTime(k) = NoTime
        THEN Raise("IndexError")  \* dt_str.split(' ')[1] of "YYYY-MM-DD"
        ELSE IF latest_hour # -1
        THEN IF target_datetime_str \in DOMAIN data
             THEN Ok(data[target_datetime_str][price_type])
             ELSE Raise("KeyError")
        ELSE None

\* get_crypto_price_on_date that reads the close whatever field is asked
get_crypto_price_on_date_close(crypto_symbol, target_date, price_type) ==
    LET loaded == load_crypto_price_data(crypto_symbol) IN
    IF loaded.tag = "raise" THEN loaded
    ELSE crypto_price_on_date_in(loaded.value, target_date, "close")

get_crypto_price_on_date(crypto_symbol, target_date, price_type) ==
    LET loaded == load_crypto_price_data(crypto_symbol) IN
    IF loaded.tag = "raise" THEN loaded
    ELSE crypto_price_on_date_in(loaded.value, target_date, price_type)

(* tools/futures_tools.py *)

load_futures_price_data(futures_symbol) ==
    IF futures_symbol \notin SUPPORTED_FUTURES
    THEN Raise("ValueError")
    ELSE Ok(FuturesFile(futures_symbol))

Abs(x) == IF x < 0 THEN -x ELSE x

\* get_futures_price_at_time once the series is loaded: the exact timestamp,
\* else the closest timestamp of the date (the first of the file's order
\* among equally close ones; the writers of the files sort them by time)
futures_price_at_time_in(data, target_date, target_time, price_type) ==
    LET target == <<target_date, target_time>>
        onDate == {k \in DOMAIN data : KeyDate(k) = target_date}
        diff(k) == Abs(KeyTime(k) - target_time)
        closest == CHOOSE k \in onDate :
                      \A j \in onDate :
                          \/ diff(k) < diff(j)
                          \/ diff(k) = diff(j) /\ KeyTime(k) <= KeyTime(j)
    IN  IF target \in DOMAIN data THEN Ok(data[target][price_type])
        ELSE IF target_date = NoDate
        THEN Raise("ValueError")  \* strptime("None 23:59:00", ...)
        ELSE IF \E k \in onDate : KeyTime(k) = NoTime
        THEN Raise("ValueError")  \* strptime("YYYY-MM-DD", "%Y-%m-%d %H:%M:%S")
        ELSE IF onDate # {} THEN Ok(data[closest][price_type])
        ELSE None

\* the first definition of get_futures_price_on_date in the file, once the
\* series is loaded: the latest key that starts with the date, a date-only
\* key read as midnight (the first of the file's order among equal ones)
futures_price_on_date_scan_in(data, target_date, price_type) ==
    LET onDate == {k \in DOMAIN data : KeyDate(k) = target_date}
        dt(k) == IF KeyTime(k) = NoTime THEN 0 ELSE KeyTime(k)
        latest_datetime_str ==
            CHOOSE k \in onDate :
                \A j \in onDate :
                    \/ dt(j) < dt(k)
                    \/ dt(j) = dt(k) /\ KeyTime(k) <= KeyTime(j)
    IN  IF target_date = NoDate /\ DOMAIN data # {}
        THEN Raise("TypeError")   \* dt_str.startswith(None)
        ELSE IF onDate # {} THEN Ok(data[latest_datetime_str][price_type])
        ELSE None

get_futures_price_at_time(futures_symbol, target_date, target_time, price_type) ==
    LET loaded == load_futures_price_data(futures_symbol) IN
    IF loaded.tag = "raise" THEN loaded
    ELSE futures_price_at_time_in(loaded.value, target_date, target_time,
                                  price_type)

\* the definition in force: the second one of the file, which asks for 23:59
get_futures_price_on_date(futures_symbol, target_date, price_type) ==
    get_futures_price_at_time(futures_symbol, target_date, 23 * 3600 + 59 * 60,
                              price_type)

\* tool_futures_trade.py: the grid is text; what matters is that it loads the file
get_futures_data_grid(futures_symbol, target_date) ==
    load_futures_price_data(futures_symbol)

----------------------------------------------------------------------------
(* The ledger file *)

\* register_agent that opens the file with "a" whether or not it exists
register_agent_appends(led) ==
    Append(led, [date |-> InitDate, id |-> 0,
                 positions |-> [x \in StockSymbols \cup {"CASH"} |->
                                   IF x = "CASH" THEN InitialCash ELSE 0]])

\* register_agent that dates the genesis line with the end of the range
register_agent_dated_today(led) ==
    IF led # <<>> THEN led
    ELSE <<[date |-> EndDate, id |-> 0,
            positions |-> [x \in StockSymbols \cup {"CASH"} |->
                              IF x = "CASH" THEN InitialCash ELSE 0]]>>

\* register_agent without the os.path.exists test: open(..., "w") on every call
register_agent_overwrites(led) ==
    <<[date |-> InitDate, id |-> 0,
       positions |-> [x \in StockSymbols \cup {"CASH"} |->
                         IF x = "CASH" THEN InitialCash ELSE 0]]>>

\* BaseAgent.register_agent: the file is written only when it does not exist
register_agent(led) ==
    IF led # <<>> THEN led
    ELSE LET init_position ==
                 [x \in StockSymbols \cup {"CASH"} |->
                     IF x = "CASH" THEN InitialCash ELSE 0]
         IN  <<[date |-> InitDate, id |-> 0, positions |-> init_position]>>

\* lines that carry an "id"
WithId(led) == {i \in 1..Len(led) : "id" \in DOMAIN led[i]}

\* tools/price_tools.py: get_latest_position.  The snapshot whose id is the
\* largest of the file, whatever its date; a missing file is registered first.
get_latest_position(today_date, led) ==
    LET file == register_agent(led)
        i == CHOOSE j \in WithId(file) :
                 \A k \in WithId(file) : file[k].id <= file[j].id
    IN  [positions |-> file[i].positions, id |-> file[i].id, file |-> file]

----------------------------------------------------------------------------
(* What a tool call leaves behind: the file, the configuration, the value   *)
(* returned (or the exception raised).                                      *)

Outcome(led, cfg, res) == [ledger |-> led, config |-> cfg, result |-> res]

Error(msg, fields) ==
    [x \in {"kind", "error"} \cup DOMAIN fields |->
        IF x = "kind" THEN "error" ELSE IF x = "error" THEN msg ELSE fields[x]]
Positions(p) == [kind |-> "positions", positions |-> p]
Raised(e) == [kind |-> "raised", exc |-> e]

\* write_config_value("IF_TRADE", True)
SetIfTrade(cfg) == [cfg EXCEPT !.IF_TRADE = TRUE]

(* agent_tools/tool_trade.py.  Lines 47 and 106 of the file close one ")"   *)
(* more than they open; the statements are read without it.                *)

\* line 61: if cash_left < 0
insufficient_cash_inverted(cash_left) == cash_left > 0
insufficient_cash(cash_left) == cash_left < 0

\* line 121: if current_position[symbol] < amount
insufficient_shares_off_by_one(held, amount) == held < amount - 1
insufficient_shares(held, amount) == held < amount

\* buy with the record written before the cash check
buy_logs_before_check(led, cfg, symbol, amount) ==
    LET today_date == cfg.TODAY_DATE
        latest == get_latest_position(today_date, led)
        current_position == latest.positions
        price == get_open_prices(today_date, symbol)
    IN
    IF price.tag = "raise"
    THEN Outcome(latest.file, cfg,
            Error("Symbol not found", [symbol |-> symbol, date |-> today_date]))
    ELSE
    LET cash_left == current_position["CASH"] - price.value * amount
        new_position ==
            Put(Put(current_position, "CASH", cash_left),
                symbol, Get(current_position, symbol, 0) + amount)
        log_data ==
            [date |-> today_date, id |-> latest.id + 1,
             this_action |->
                 [action |-> "buy", symbol |-> symbol, amount |-> amount],
             positions |-> new_position]
    IN
    IF cash_left < 0
    THEN Outcome(Append(latest.file, log_data), SetIfTrade(cfg),
            Error("Insufficient cash",
                  [required_cash |-> price.value * amount,
                   cash_available |-> Get(current_position, "CASH", 0),
                   symbol |-> symbol, date |-> today_date]))
    ELSE Outcome(Append(latest.file, log_data), SetIfTrade(cfg),
                 Positions(new_position))

buy(led, cfg, symbol, amount) ==
    IF cfg.SIGNATURE = NoSignature THEN Outcome(led, cfg, Raised("ValueError"))
    ELSE
    LET today_date == cfg.TODAY_DATE
        latest == get_latest_position(today_date, led)
        current_position == latest.positions
        current_action_id == latest.id
        file == latest.file
        price == get_open_prices(today_date, symbol)
    IN
    IF price.tag = "raise"
    THEN Outcome(file, cfg,
            Error("Symbol not found", [symbol |-> symbol, date |-> today_date]))
    ELSE
    LET this_symbol_price == price.value
        cash_left == current_position["CASH"] - this_symbol_price * amount
    IN
    IF insufficient_cash(cash_left)
    THEN Outcome(file, cfg,
            Error("Insufficient cash",
                  [required_cash |-> this_symbol_price * amount,
                   cash_available |-> Get(current_position, "CASH", 0),
                   symbol |-> symbol, date |-> today_date]))
    ELSE IF symbol \notin DOMAIN current_position
    THEN \* new_position[symbol] += amount on a missing key
         Outcome(file, cfg, Raised("KeyError"))
    ELSE
    LET new_position ==
            Put(Put(current_position, "CASH", cash_left),
                symbol, current_position[symbol] + amount)
        log_data ==
            [date |-> today_date, id |-> current_action_id + 1,
             this_action |->
                 [action |-> "buy", symbol |-> symbol, amount |-> amount],
             positions |-> new_position]
    IN  Outcome(Append(file, log_data), SetIfTrade(cfg), Positions(new_position))

sell(led, cfg, symbol, amount) ==
    IF cfg.SIGNATURE = NoSignature THEN Outcome(led, cfg, Raised("ValueError"))
    ELSE
    LET today_date == cfg.TODAY_DATE
        latest == get_latest_position(today_date, led)
        current_position == latest.positions
        current_action_id == latest.id
        file == latest.file
        price == get_open_prices(today_date, symbol)
    IN
    IF price.tag = "raise"
    THEN Outcome(file, cfg,
            Error("Symbol not found", [symbol |-> symbol, date |-> today_date]))
    ELSE IF symbol \notin DOMAIN current_position
    THEN Outcome(file, cfg,
            Error("No position", [symbol |-> symbol, date |-> today_date]))
    ELSE IF insufficient_shares(current_position[symbol], amount)
    THEN Outcome(file, cfg,
            Error("Insufficient shares",
                  [have |-> Get(current_position, symbol, 0),
                   want_to_sell |-> amount,
                   symbol |-> symbol, date |-> today_date]))
    ELSE
    LET this_symbol_price == price.value
        sold == Put(current_position, symbol, current_position[symbol] - amount)
        new_position ==
            Put(sold, "CASH", Get(sold, "CASH", 0) + this_symbol_price * amount)
        log_data ==
            [date |-> today_date, id |-> current_action_id + 1,
             this_action |->
                 [action |-> "sell", symbol |-> symbol, amount |-> amount],
             positions |-> new_position]
    IN  Outcome(Append(file, log_data), SetIfTrade(cfg), Positions(new_position))

(* agent_tools/tool_crypto_trade.py *)

buy_crypto(led, cfg, crypto_symbol, amount) ==
    IF cfg.SIGNATURE = NoSignature THEN Outcome(led, cfg, Raised("ValueError"))
    ELSE
    LET today_date == cfg.TODAY_DATE
        latest == get_latest_position(today_date, led)
        current_position == latest.positions
        current_action_id == latest.id
        file == latest.file
        price == get_crypto_price_on_date(crypto_symbol, today_date, "open")
    IN
    IF price.tag = "raise" /\ price.exc = "KeyError"
    THEN Outcome(file, cfg,
            Error("Symbol not found",
                  [symbol |-> crypto_symbol, date |-> today_date]))
    ELSE IF price.tag = "raise"
    THEN Outcome(file, cfg, Raised(price.exc))
    ELSE IF price.tag = "none"
    THEN Outcome(file, cfg,
            Error("Price not available",
                  [symbol |-> crypto_symbol, date |-> today_date]))
    ELSE
    LET this_symbol_price == price.value
        cash_left == current_position["CASH"] - this_symbol_price * amount
    IN
    IF cash_left < 0
    THEN Outcome(file, cfg,
            Error("Insufficient cash",
                  [required_cash |-> this_symbol_price * amount,
                   cash_available |-> Get(current_position, "CASH", 0),
                   symbol |-> crypto_symbol, date |-> today_date]))
    ELSE
    LET new_position ==
            Put(Put(current_position, "CASH", cash_left),
                crypto_symbol, Get(current_position, crypto_symbol, 0) + amount)
        log_data ==
            [date |-> today_date, id |-> current_action_id + 1,
             this_action |->
                 [action |-> "buy_crypto", symbol |-> crypto_symbol,
                  amount |-> amount],
             positions |-> new_position]
    IN  Outcome(Append(file, log_data), SetIfTrade(cfg), Positions(new_position))

sell_crypto(led, cfg, crypto_symbol, amount) ==
    IF cfg.SIGNATURE = NoSignature THEN Outcome(led, cfg, Raised("ValueError"))
    ELSE
    LET today_date == cfg.TODAY_DATE
        latest == get_latest_position(today_date, led)
        current_position == latest.positions
        current_action_id == latest.id
        file == latest.file
        price == get_crypto_price_on_date(crypto_symbol, today_date, "open")
    IN
    IF price.tag = "raise" /\ price.exc = "KeyError"
    THEN Outcome(file, cfg,
            Error("Symbol not found",
                  [symbol |-> crypto_symbol, date |-> today_date]))
    ELSE IF price.tag = "raise"
    THEN Outcome(file, cfg, Raised(price.exc))
    ELSE IF price.tag = "none"
    THEN Outcome(file, cfg,
            Error("Price not available",
                  [symbol |-> crypto_symbol, date |-> today_date]))
    ELSE IF crypto_symbol \notin DOMAIN current_position
    THEN Outcome(file, cfg,
            Error("No position",
                  [symbol |-> crypto_symbol, date |-> today_date]))
    ELSE IF current_position[crypto_symbol] < amount
    THEN Outcome(file, cfg,
            Error("Insufficient shares",
                  [have |-> Get(current_position, crypto_symbol, 0),
                   want_to_sell |-> amount,
                   symbol |-> crypto_symbol, date |-> today_date]))
    ELSE
    LET this_symbol_price == price.value
        sold == Put(current_position, crypto_symbol,
                    current_position[crypto_symbol] - amount)
        new_position ==
            Put(sold, "CASH", Get(sold, "CASH", 0) + this_symbol_price * amount)
        log_data ==
            [date |-> today_date, id |-> current_action_id + 1,
             this_action |->
                 [action |-> "sell_crypto", symbol |-> crypto_symbol,
                  amount |-> amount],
             positions |-> new_position]
    IN  Outcome(Append(file, log_data), SetIfTrade(cfg), Positions(new_position))

(* agent_tools/tool_futures_trade.py.  The record written has "action_id"  *)
(* (the id read, not the next one) and no "id" or "this_action"; IF_TRADE  *)
(* is not written; the value returned wraps the positions.                 *)

buy_futures(led, cfg, futures_symbol, contracts) ==
    IF cfg.SIGNATURE = NoSignature THEN Outcome(led, cfg, Raised("ValueError"))
    ELSE
    LET today_date == cfg.TODAY_DATE IN
    IF futures_symbol \notin SUPPORTED_FUTURES
    THEN Outcome(led, cfg,
            Error("Unsupported futures contract",
                  [symbol |-> futures_symbol, date |-> today_date]))
    ELSE
    LET latest == get_latest_position(today_date, led)
        current_position == latest.positions
        current_action_id == latest.id
        file == latest.file
        looked == get_futures_price_on_date(futures_symbol, today_date, "open")
        data_grid == get_futures_data_grid(futures_symbol, today_date)
    IN
    IF looked.tag = "raise" /\ looked.exc = "KeyError"
    THEN Outcome(file, cfg,
            Error("Symbol not found",
                  [symbol |-> futures_symbol, date |-> today_date]))
    ELSE IF looked.tag = "raise"
    THEN Outcome(file, cfg, Raised(looked.exc))
    ELSE IF data_grid.tag = "raise"
    THEN Outcome(file, cfg, Raised(data_grid.exc))
    ELSE IF looked.tag = "none"
    THEN Outcome(file, cfg,
            Error("Price not available",
                  [symbol |-> futures_symbol, date |-> today_date]))
    ELSE
    LET price == looked.value
        cost_per_contract == price * contract_multiplier
        total_cost == cost_per_contract * contracts
        cash_left == current_position["CASH"] - total_cost
    IN
    IF cash_left < 0
    THEN Outcome(file, cfg,
            Error("Insufficient cash",
                  [required_cash |-> total_cost,
                   cash_available |-> Get(current_position, "CASH", 0),
                   cost_per_contract |-> cost_per_contract,
                   symbol |-> futures_symbol, contracts |-> contracts,
                   price |-> price, date |-> today_date]))
    ELSE
    LET new_position ==
            Put(Put(current_position, futures_symbol,
                    Get(current_position, futures_symbol, 0) + contracts),
                "CASH", cash_left)
        transaction_record ==
            [date |-> today_date, action_id |-> current_action_id,
             action |-> "buy_futures", symbol |-> futures_symbol,
             contracts |-> contracts, price |-> price,
             total_cost |-> total_cost, positions |-> new_position]
    IN  Outcome(Append(file, transaction_record), cfg,
            [kind |-> "success", action |-> "buy_futures",
             symbol |-> futures_symbol, contracts |-> contracts,
             price_per_point |-> price, cost_per_contract |-> cost_per_contract,
             total_cost |-> total_cost, new_cash |-> cash_left,
             positions |-> new_position, date |-> today_date])

sell_futures(led, cfg, futures_symbol, contracts) ==
    IF cfg.SIGNATURE = NoSignature THEN Outcome(led, cfg, Raised("ValueError"))
    ELSE
    LET today_date == cfg.TODAY_DATE IN
    IF futures_symbol \notin SUPPORTED_FUTURES
    THEN Outcome(led, cfg,
            Error("Unsupported futures contract",
                  [symbol |-> futures_symbol, date |-> today_date]))
    ELSE
    LET latest == get_latest_position(today_date, led)
        current_position == latest.positions
        current_action_id == latest.id
        file == latest.file
        looked == get_futures_price_on_date(futures_symbol, today_date, "open")
        data_grid == get_futures_data_grid(futures_symbol, today_date)
    IN
    IF looked.tag = "raise" /\ looked.exc = "KeyError"
    THEN Outcome(file, cfg,
            Error("Symbol not found",
                  [symbol |-> futures_symbol, date |-> today_date]))
    ELSE IF looked.tag = "raise"
    THEN Outcome(file, cfg, Raised(looked.exc))
    ELSE IF data_grid.tag = "raise"
    THEN Outcome(file, cfg, Raised(data_grid.exc))
    ELSE IF looked.tag = "none"
    THEN Outcome(file, cfg,
            Error("Price not available",
                  [symbol |-> futures_symbol, date |-> today_date]))
    ELSE
    LET price == looked.value
        current_contracts == Get(current_position, futures_symbol, 0)
    IN
    IF current_contracts < contracts
    THEN Outcome(file, cfg,
            Error("Insufficient contracts",
                  [symbol |-> futures_symbol,
                   held_contracts |-> current_contracts,
                   requested_sell |-> contracts, date |-> today_date]))
    ELSE
    LET proceeds == price * contract_multiplier * contracts
        sold == Put(current_position, futures_symbol,
                    current_contracts - contracts)
        new_position == Put(sold, "CASH", sold["CASH"] + proceeds)
        transaction_record ==
            [date |-> today_date, action_id |-> current_action_id,
             action |-> "sell_futures", symbol |-> futures_symbol,
             contracts |-> contracts, price |-> price,
             proceeds |-> proceeds, positions |-> new_position]
    IN  Outcome(Append(file, transaction_record), cfg,
            [kind |-> "success", action |-> "sell_futures",
             symbol |-> futures_symbol, contracts |-> contracts,
             price_per_point |-> price,
             proceeds_per_contract |-> price * contract_multiplier,
             total_proceeds |-> proceeds, new_cash |-> new_position["CASH"],
             positions |-> new_position, date |-> today_date])

----------------------------------------------------------------------------
(* BaseAgent: the scheduler *)

\* BaseAgent.get_trading_dates: the dates after the latest date of the file,
\* up to end_date; weekdays only for stocks.  Registers a missing file.
MaxDateOf(led) == Max({led[i].date : i \in 1..Len(led)})

RECURSIVE DatesFrom(_, _, _)
DatesFrom(current_date, end_date, atype) ==
    IF current_date > end_date THEN <<>>
    ELSE (IF atype = "crypto" \/ atype = "futures" \/ Weekday(current_date) < 5
          THEN <<current_date>> ELSE <<>>)
         \o DatesFrom(current_date + 1, end_date, atype)

\* get_trading_dates that walks from init_date whatever the file holds
get_trading_dates_from_init_date(led, atype, init_date, end_date) ==
    [file |-> register_agent(led),
     dates |-> IF end_date <= init_date THEN <<>>
               ELSE DatesFrom(init_date + 1, end_date, atype)]

\* get_trading_dates with the walk begun at max_date instead of the day after
get_trading_dates_includes_last_date(led, atype, init_date, end_date) ==
    LET file == register_agent(led)
        max_date == IF led = <<>> THEN init_date ELSE MaxDateOf(led)
    IN  [file |-> file,
         dates |-> IF end_date <= max_date THEN <<>>
                   ELSE DatesFrom(max_date, end_date, atype)]

get_trading_dates(led, atype, init_date, end_date) ==
    LET file == register_agent(led)
        max_date == IF led = <<>> THEN init_date ELSE MaxDateOf(led)
    IN  [file |-> file,
         dates |-> IF end_date <= max_date THEN <<>>
                   ELSE DatesFrom(max_date + 1, end_date, atype)]

\* tools/price_tools.py: add_no_trade_record.  A marker of its own, apart
\* from the position ledger.
add_no_trade_record(markers, today_date, signature) ==
    Append(markers, [date |-> today_date, signature |-> signature])

----------------------------------------------------------------------------
(* The state machine *)

NoCall == [op |-> "none"]

Call(op, symbol, amount, out) ==
    [op |-> op, symbol |-> symbol, amount |-> amount, result |-> out.result,
     before |-> ledger, if_trade_before |-> config.IF_TRADE]

Init ==
    /\ ledger = <<>>
    /\ config = [SIGNATURE |-> Signature, TODAY_DATE |-> EndDate,
                 IF_TRADE |-> FALSE]
    /\ asset_type \in AssetTypes
    /\ trading_dates = <<>>
    /\ pc = "idle"
    /\ no_trade = <<>>
    /\ last = NoCall
    /\ hour = FirstHour
    /\ session_start = 0

\* BaseAgent.register_agent, called on its own
RegisterAgent ==
    /\ ledger' = register_agent(ledger)
    /\ last' = [op |-> "register_agent", before |-> ledger]
    /\ UNCHANGED <<config, asset_type, trading_dates, pc, no_trade, hour,
                   session_start>>

\* BaseAgent.run_date_range, up to the loop
RunDateRange ==
    /\ pc = "idle"
    /\ LET r == get_trading_dates(ledger, asset_type, InitDate, EndDate) IN
       /\ ledger' = r.file
       /\ trading_dates' = r.dates
       /\ pc' = IF r.dates = <<>> THEN "idle" ELSE "loop"
    /\ last' = NoCall
    /\ UNCHANGED <<config, asset_type, no_trade, hour, session_start>>

\* the loop body with the two write_config_value calls left out
StartSessionWithoutConfig ==
    /\ pc = "loop"
    /\ pc' = "session"
    /\ session_start' = Len(ledger)
    /\ last' = NoCall
    /\ UNCHANGED <<ledger, config, asset_type, trading_dates, no_trade, hour>>

\* the loop body before the session: the configuration is written
StartSession ==
    /\ pc = "loop"
    /\ config' = [config EXCEPT !.TODAY_DATE = Head(trading_dates),
                                !.SIGNATURE = Signature]
    /\ pc' = "session"
    /\ session_start' = Len(ledger)
    /\ last' = NoCall
    /\ UNCHANGED <<ledger, asset_type, trading_dates, no_trade, hour>>

\* a tool call of the agent during a session
ToolCall(op, symbol, amount, out) ==
    /\ pc = "session"
    /\ Len(ledger) < MaxLedger
    /\ ledger' = out.ledger
    /\ config' = out.config
    /\ last' = Call(op, symbol, amount, out)
    /\ UNCHANGED <<asset_type, trading_dates, pc, no_trade, hour,
                   session_start>>

Buy == \E symbol \in Symbols, amount \in Amounts :
    ToolCall("buy", symbol, amount, buy(ledger, config, symbol, amount))
Sell == \E symbol \in Symbols, amount \in Amounts :
    ToolCall("sell", symbol, amount, sell(ledger, config, symbol, amount))
BuyCrypto == \E symbol \in Symbols, amount \in Amounts :
    ToolCall("buy_crypto", symbol, amount,
             buy_crypto(ledger, config, symbol, amount))
SellCrypto == \E symbol \in Symbols, amount \in Amounts :
    ToolCall("sell_crypto", symbol, amount,
             sell_crypto(ledger, config, symbol, amount))
BuyFutures == \E symbol \in Symbols, amount \in Amounts :
    ToolCall("buy_futures", symbol, amount,
             buy_futures(ledger, config, symbol, amount))
SellFutures == \E symbol \in Symbols, amount \in Amounts :
    ToolCall("sell_futures", symbol, amount,
             sell_futures(ledger, config, symbol, amount))

\* BaseAgent._handle_trading_result
handle_trading_result(cfg, markers, today_date) ==
    IF cfg.IF_TRADE
    THEN [config |-> [cfg EXCEPT !.IF_TRADE = FALSE], no_trade |-> markers]
    ELSE [config |-> [cfg EXCEPT !.IF_TRADE = FALSE],
          no_trade |-> add_no_trade_record(markers, today_date, Signature)]

\* The session ends normally: the result is handled and the loop moves on.
\* Every hourly session of a date writes the same TODAY_DATE, so the hour is
\* not kept: the next session is of the same date (an hour remains) or of
\* the next one.
EndSession ==
    /\ pc = "session"
    /\ LET h == handle_trading_result(config, no_trade, Head(trading_dates)) IN
       /\ Len(h.no_trade) <= MaxMarkers
       /\ config' = h.config
       /\ no_trade' = h.no_trade
    /\ \/ /\ pc' = "loop"
          /\ UNCHANGED trading_dates
       \/ /\ trading_dates' = Tail(trading_dates)
          /\ pc' = IF Tail(trading_dates) = <<>> THEN "idle" ELSE "loop"
    /\ session_start' = 0
    /\ last' = [op |-> "session_end"]
    /\ UNCHANGED <<ledger, asset_type, hour>>

\* a step of the session raises: run_date_range re-raises and the run is over
SessionRaises ==
    /\ pc = "session"
    /\ pc' = "idle"
    /\ trading_dates' = <<>>
    /\ hour' = FirstHour
    /\ session_start' = 0
    /\ last' = NoCall
    /\ UNCHANGED <<ledger, config, asset_type, no_trade>>

Next ==
    \/ RegisterAgent
    \/ RunDateRange
    \/ StartSession
    \/ Buy
    \/ Sell
    \/ BuyCrypto
    \/ SellCrypto
    \/ BuyFutures
    \/ SellFutures
    \/ EndSession
    \/ SessionRaises

Spec == Init /\ [][Next]_vars

----------------------------------------------------------------------------
(* Properties *)

Entries == 1..Len(ledger)
TradeOps == {"buy", "sell", "buy_crypto", "sell_crypto", "buy_futures",
             "sell_futures"}
BuyOps == {"buy", "buy_crypto", "buy_futures"}
SellOps == {"sell", "sell_crypto", "sell_futures"}
Called == last.op \in TradeOps
\* the call appended one line to the file it found
Appended == Called /\ Len(ledger) = Len(last.before) + 1
\* the holdings the call found: the latest snapshot of the file it found
Held == get_latest_position(config.TODAY_DATE, last.before).positions
\* the line the call wrote
Written == ledger[Len(ledger)]

IsPrefix(s, t) == Len(s) <= Len(t) /\ SubSeq(t, 1, Len(s)) = s

\* C1: every snapshot of the ledger has CASH >= 0, whatever sequence of buy
\* and sell calls (stock, crypto, futures) with positive quantities was made
\* against a genesis snapshot with CASH >= 0.
C1_NonNegativeCash ==
    \A i \in Entries : ledger[i].positions["CASH"] >= 0

\* a buy that took all the cash has been appended after another trade
C1_Witness ==
    /\ Appended /\ last.op \in BuyOps
    /\ Len(ledger) = 3
    /\ Written.positions["CASH"] = 0

\* C2: every snapshot of the ledger has positions[symbol] >= 0 for every
\* symbol other than CASH.
C2_NonNegativeShares ==
    \A i \in Entries :
        \A x \in DOMAIN ledger[i].positions : ledger[i].positions[x] >= 0

\* a sell of the whole holding has been appended
C2_Witness ==
    /\ Appended /\ last.op \in SellOps
    /\ Held[last.symbol] = last.amount
    /\ Written.positions[last.symbol] = 0

\* C3: the "id" fields read back in file order are 0, 1, 2, ...
C3_IdsCountUp ==
    \A i \in Entries : "id" \in DOMAIN ledger[i] /\ ledger[i].id = i - 1

\* C4: the ledger is append-only: after every step the previous content of
\* the file is a prefix of the new content.
C4_AppendOnly == [][IsPrefix(ledger, ledger')]_vars

\* the file has been registered, extended by trades up to the bound, and a
\* session has ended with a no-trade marker
C4_Witness ==
    /\ Len(ledger) = MaxLedger
    /\ no_trade # <<>>
    /\ pc = "idle"

\* C5: a call that returns a payload with an "error" field leaves the ledger
\* as it was and does not write IF_TRADE.
C5_ErrorLeavesLedger ==
    (Called /\ last.result.kind = "error") =>
        /\ ledger = last.before
        /\ config.IF_TRADE = last.if_trade_before

\* a buy was refused for lack of cash after an earlier trade
C5_Witness ==
    /\ Called /\ last.result.kind = "error"
    /\ last.result.error = "Insufficient cash"
    /\ Len(ledger) > 1

\* the price the call's oracle resolves for its symbol on the session date
Resolved ==
    IF last.op \in {"buy", "sell"}
    THEN get_open_prices(config.TODAY_DATE, last.symbol)
    ELSE IF last.op \in {"buy_crypto", "sell_crypto"}
    THEN get_crypto_price_on_date(last.symbol, config.TODAY_DATE, "open")
    ELSE get_futures_price_on_date(last.symbol, config.TODAY_DATE, "open")
Priced == Called /\ Resolved.tag = "ok"
Price == Resolved.value

\* the symbol is not one the tool called supports
Unsupported ==
    \/ last.op \in {"buy_crypto", "sell_crypto"}
         /\ last.symbol \notin SUPPORTED_CRYPTOS
    \/ last.op \in {"buy_futures", "sell_futures"}
         /\ last.symbol \notin SUPPORTED_FUTURES

\* C6: a business-rule violation (unsupported or unknown symbol, no price on
\* the date, insufficient cash, insufficient shares) is returned as a payload
\* with an "error" field and never raised, by all six operations.
C6_RejectionsAreReturned ==
    (Called /\ (\/ Unsupported
                \/ ~Priced
                \/ last.op \in BuyOps /\ Held["CASH"] - Price * last.amount < 0
                \/ last.op \in SellOps
                     /\ Get(Held, last.symbol, 0) < last.amount))
        => last.result.kind = "error"

\* the positions a buy of last.amount at Price leaves
BoughtPositions ==
    Put(Put(Held, "CASH", Held["CASH"] - Price * last.amount),
        last.symbol, Get(Held, last.symbol, 0) + last.amount)

\* C7: a buy of q of s at price p with CASH - p*q >= 0 appends exactly one
\* entry: positions are the latest ones with CASH less p*q and s plus q,
\* this_action is {buy, s, q}, date is the session date; the call returns
\* the new positions.
C7_BuyAppendsSnapshot ==
    (Priced /\ last.op \in BuyOps /\ Held["CASH"] - Price * last.amount >= 0)
        => /\ Appended
           /\ IsPrefix(last.before, ledger)
           /\ Written.positions = BoughtPositions
           /\ "this_action" \in DOMAIN Written
           /\ Written.this_action.action \in BuyOps
           /\ Written.this_action.symbol = last.symbol
           /\ Written.this_action.amount = last.amount
           /\ Written.date = config.TODAY_DATE
           /\ last.result = Positions(BoughtPositions)

\* what the operation charges for q units at price p
Cost(op, p, q) ==
    IF op \in {"buy_futures", "sell_futures"}
    THEN p * contract_multiplier * q ELSE p * q

\* C8: a buy that passes the cash check for a symbol with no entry in the
\* latest holdings succeeds and the entry is created with the quantity
\* bought, for stock, crypto and futures.
C8_BuyCreatesEntry ==
    (Priced /\ last.op \in BuyOps /\ last.symbol \notin DOMAIN Held
        /\ Held["CASH"] - Cost(last.op, Price, last.amount) >= 0)
        => /\ Appended
           /\ last.result.kind \notin {"error", "raised"}
           /\ Written.positions[last.symbol] = last.amount

InsufficientCashError ==
    last.result.kind = "error" /\ last.result.error = "Insufficient cash"

\* C9: a stock or crypto buy is rejected with "Insufficient cash" exactly
\* when CASH - price*quantity < 0, the payload then has required_cash =
\* price*quantity and cash_available = CASH; a buy whose cost is exactly the
\* cash is accepted and leaves CASH = 0.
C9_InsufficientCashThreshold ==
    (Priced /\ last.op \in {"buy", "buy_crypto"})
        => /\ InsufficientCashError <=> Held["CASH"] - Price * last.amount < 0
           /\ InsufficientCashError =>
                 /\ last.result.required_cash = Price * last.amount
                 /\ last.result.cash_available = Held["CASH"]
           /\ Price * last.amount = Held["CASH"] =>
                 /\ Appended
                 /\ last.result.kind = "positions"
                 /\ Written.positions["CASH"] = 0

\* the positions a sell of last.amount at Price leaves
SoldPositions ==
    Put(Put(Held, last.symbol, Held[last.symbol] - last.amount),
        "CASH", Held["CASH"] + Price * last.amount)

\* C10: a sell of q of a held symbol s at price p with holdings[s] >= q
\* appends exactly one entry: positions are the latest ones with s less q
\* and CASH plus p*q, this_action is {sell, s, q}; the call returns the new
\* positions.
C10_SellAppendsSnapshot ==
    (Priced /\ last.op \in SellOps /\ last.symbol \in DOMAIN Held
        /\ Held[last.symbol] >= last.amount)
        => /\ Appended
           /\ IsPrefix(last.before, ledger)
           /\ Written.positions = SoldPositions
           /\ "this_action" \in DOMAIN Written
           /\ Written.this_action.action \in SellOps
           /\ Written.this_action.symbol = last.symbol
           /\ Written.this_action.amount = last.amount
           /\ last.result = Positions(SoldPositions)

NoPositionError ==
    last.result.kind = "error" /\ last.result.error = "No position"

\* C11: a sell of a symbol that has no entry in the latest holdings, and for
\* which a price resolves, returns a "No position" error and appends nothing,
\* for the stock, crypto and futures sell operations and every quantity.
C11_SellOfAbsentSymbol ==
    (Priced /\ last.op \in SellOps /\ last.symbol \notin DOMAIN Held)
        => /\ NoPositionError
           /\ ledger = last.before

\* C11 for the stock and crypto sell operations alone
C11_StockAndCrypto ==
    (Priced /\ last.op \in {"sell", "sell_crypto"}
        /\ last.symbol \notin DOMAIN Held)
        => /\ NoPositionError
           /\ ledger = last.before

InsufficientSharesError ==
    last.result.kind = "error" /\ last.result.error = "Insufficient shares"

\* C12: a sell of a held symbol is rejected with "Insufficient shares"
\* exactly when holdings[symbol] < quantity, the payload then has have =
\* holdings[symbol] and want_to_sell = quantity; a sell of exactly the whole
\* holding is accepted and leaves the symbol at 0, its entry retained.
C12_InsufficientSharesThreshold ==
    (Priced /\ last.op \in SellOps /\ last.symbol \in DOMAIN Held)
        => /\ InsufficientSharesError <=> Held[last.symbol] < last.amount
           /\ InsufficientSharesError =>
                 /\ last.result.have = Held[last.symbol]
                 /\ last.result.want_to_sell = last.amount
           /\ Held[last.symbol] = last.amount =>
                 /\ Appended
                 /\ last.symbol \in DOMAIN Written.positions
                 /\ Written.positions[last.symbol] = 0

\* C12 for the stock and crypto sell operations alone
C12_StockAndCrypto ==
    (Priced /\ last.op \in {"sell", "sell_crypto"}
        /\ last.symbol \in DOMAIN Held)
        => /\ InsufficientSharesError <=> Held[last.symbol] < last.amount
           /\ InsufficientSharesError =>
                 /\ last.result.have = Held[last.symbol]
                 /\ last.result.want_to_sell = last.amount
           /\ Held[last.symbol] = last.amount =>
                 /\ Appended
                 /\ last.symbol \in DOMAIN Written.positions
                 /\ Written.positions[last.symbol] = 0

\* C13: every successful trade of any asset class (stock, crypto, futures)
\* leaves IF_TRADE true, besides appending to the ledger.
C13_TradeSetsIfTrade ==
    Appended => config.IF_TRADE = TRUE

\* C13 for the stock and crypto tools alone
C13_StockAndCrypto ==
    (Appended /\ last.op \notin {"buy_futures", "sell_futures"})
        => config.IF_TRADE = TRUE

\* the step is the normal end of a session
SessionEnds == pc = "session" /\ last'.op = "session_end"
\* a line was appended to the ledger since the session began
TradedInSession == Len(ledger) > session_start
\* the step records a no-trade marker for the session's date and signature
MarkerRecorded ==
    no_trade' = Append(no_trade, [date |-> config.TODAY_DATE,
                                  signature |-> config.SIGNATURE])

\* C14: at the end of each completed session a no-trade marker for the
\* session's date and signature is recorded if and only if no successful
\* trade occurred during the session; the ledger, and so its sequence of
\* ids, is as it was.
C14_NoTradeMarker ==
    [][SessionEnds =>
          /\ ledger' = ledger
          /\ MarkerRecorded <=> ~TradedInSession
          /\ ~MarkerRecorded => no_trade' = no_trade]_vars

\* C14 for sessions whose trades were made by the stock and crypto tools
C14_StockAndCrypto ==
    [][(SessionEnds
          /\ \A i \in (session_start + 1)..Len(ledger) :
                 "this_action" \in DOMAIN ledger[i])
        => /\ ledger' = ledger
           /\ MarkerRecorded <=> ~TradedInSession
           /\ ~MarkerRecorded => no_trade' = no_trade]_vars

----------------------------------------------------------------------------
(* The tool servers on their own.  Each server is a process of its own   *)
(* (mcp.run): a tool is called with whatever the configuration store     *)
(* holds, set or not, against the file as it is.                         *)

\* the tool a call by name is dispatched to
tool(op, led, cfg, symbol, amount) ==
    CASE op = "buy" -> buy(led, cfg, symbol, amount)
      [] op = "sell" -> sell(led, cfg, symbol, amount)
      [] op = "buy_crypto" -> buy_crypto(led, cfg, symbol, amount)
      [] op = "sell_crypto" -> sell_crypto(led, cfg, symbol, amount)
      [] op = "buy_futures" -> buy_futures(led, cfg, symbol, amount)
      [] op = "sell_futures" -> sell_futures(led, cfg, symbol, amount)

InitServer ==
    /\ ledger \in {<<>>, register_agent(<<>>)}
    /\ config \in [SIGNATURE : {Signature, NoSignature},
                   TODAY_DATE : {NoDate, EndDate - 1, EndDate},
                   IF_TRADE : {FALSE}]
    /\ asset_type \in AssetTypes
    /\ trading_dates = <<>>
    /\ pc = "idle"
    /\ no_trade = <<>>
    /\ last = NoCall
    /\ hour = FirstHour
    /\ session_start = 0

ServerCall ==
    \E op \in TradeOps, symbol \in Symbols, amount \in Amounts :
        LET out == tool(op, ledger, config, symbol, amount) IN
        /\ Len(ledger) < MaxLedger
        /\ ledger' = out.ledger
        /\ config' = out.config
        /\ last' = Call(op, symbol, amount, out)
        /\ UNCHANGED <<asset_type, trading_dates, pc, no_trade, hour,
                       session_start>>

NextServer == ServerCall

SpecServer == InitServer /\ [][NextServer]_vars

\* the signature or the date is not set in the configuration store
Unconfigured ==
    config.SIGNATURE = NoSignature \/ config.TODAY_DATE = NoDate

\* C15: if the signature or the current date cannot be resolved from the
\* configuration, a buy or sell raises instead of returning an error
\* payload, and the ledger is as it was before the call.
C15_MissingConfigIsFatal ==
    (Called /\ Unconfigured)
        => /\ last.result.kind = "raised"
           /\ ledger = last.before

\* C15 for a missing signature alone
C15_MissingSignature ==
    (Called /\ config.SIGNATURE = NoSignature)
        => /\ last.result.kind = "raised"
           /\ ledger = last.before

\* C15 for a missing date, in the tools whose price lookup is under src/
\* and for a symbol they support: the call raises
C15_MissingDateRaises ==
    (Called /\ config.SIGNATURE # NoSignature /\ config.TODAY_DATE = NoDate
        /\ last.op \notin {"buy", "sell"} /\ ~Unsupported)
        => last.result.kind = "raised"

\* with no date set, a futures tool answers an unsupported symbol with an
\* error payload
C15_PayloadWithoutDate ==
    /\ Called /\ last.op \in {"buy_futures", "sell_futures"}
    /\ config.SIGNATURE # NoSignature /\ config.TODAY_DATE = NoDate
    /\ last.result.kind = "error"
    /\ last.result.error = "Unsupported futures contract"

\* a genesis line: id 0 and no this_action
Genesis(e) == "id" \in DOMAIN e /\ e.id = 0 /\ "this_action" \notin DOMAIN e
Registered == last.op = "register_agent"

\* C16: registration is idempotent: however often register_agent is called
\* and however the calls interleave with trades, an existing ledger has
\* exactly one genesis entry, its first, and a call on an existing ledger
\* leaves it as it was.
C16_RegistrationIdempotent ==
    /\ ledger # <<>> =>
          /\ Genesis(ledger[1])
          /\ Cardinality({i \in Entries : Genesis(ledger[i])}) = 1
    /\ (Registered /\ last.before # <<>>) => ledger = last.before

\* register_agent has been called on a ledger that trades had extended
C16_Witness ==
    /\ Registered
    /\ Len(last.before) = MaxLedger
    /\ \E i \in Entries : "this_action" \in DOMAIN ledger[i]

\* C17: registration on a ledger that does not exist creates exactly one
\* entry: date = init_date, id = 0, no this_action, positions with every
\* configured symbol at 0 and CASH at the configured initial cash.
C17_GenesisEntry ==
    (Registered /\ last.before = <<>>)
        => /\ Len(ledger) = 1
           /\ DOMAIN ledger[1] = {"date", "id", "positions"}
           /\ ledger[1].date = InitDate
           /\ ledger[1].id = 0
           /\ DOMAIN ledger[1].positions = StockSymbols \cup {"CASH"}
           /\ \A x \in StockSymbols : ledger[1].positions[x] = 0
           /\ ledger[1].positions["CASH"] = InitialCash

\* register_agent has been called with no ledger file
C17_Witness ==
    /\ Registered /\ last.before = <<>>
    /\ ledger # <<>>

----------------------------------------------------------------------------
(* get_trading_dates on its own: called with any init_date and end_date  *)
(* of the calendar, by any kind of agent, with no ledger or with the     *)
(* ledger an earlier run left: registered on some day, with or without a *)
(* trade on a later day.                                                 *)

Days == 1..MaxDay

EarlierGenesis(d) ==
    [date |-> d, id |-> 0,
     positions |-> [x \in StockSymbols \cup {"CASH"} |->
                       IF x = "CASH" THEN InitialCash ELSE 0]]

EarlierTrade(d) ==
    [date |-> d, id |-> 1,
     this_action |-> [action |-> "buy_crypto", symbol |-> "ETH", amount |-> 1],
     positions |-> [x \in StockSymbols \cup {"CASH", "ETH"} |->
                       IF x = "CASH" THEN InitialCash - 1
                       ELSE IF x = "ETH" THEN 1 ELSE 0]]

EarlierLedgers ==
    {<<>>}
    \cup {<<EarlierGenesis(d)>> : d \in Days}
    \cup {<<EarlierGenesis(d[1]), EarlierTrade(d[2])>> :
             d \in {x \in Days \X Days : x[1] <= x[2]}}

InitDates ==
    /\ ledger \in EarlierLedgers
    /\ config = [SIGNATURE |-> Signature, TODAY_DATE |-> EndDate,
                 IF_TRADE |-> FALSE]
    /\ asset_type \in AssetTypes
    /\ trading_dates = <<>>
    /\ pc = "idle"
    /\ no_trade = <<>>
    /\ last = NoCall
    /\ hour = FirstHour
    /\ session_start = 0

GetTradingDates ==
    \E init_date \in Days, end_date \in Days :
        LET r == get_trading_dates(ledger, asset_type, init_date, end_date) IN
        /\ ledger' = r.file
        /\ last' = [op |-> "get_trading_dates", init_date |-> init_date,
                    end_date |-> end_date, before |-> ledger,
                    dates |-> r.dates]
        /\ UNCHANGED <<config, asset_type, trading_dates, pc, no_trade, hour,
                       session_start>>

NextDates == GetTradingDates

SpecDates == InitDates /\ [][NextDates]_vars

GotDates == last.op = "get_trading_dates"
\* the latest date recorded in the ledger the call found; init_date when it
\* found none and registered
LedgerLastDate ==
    IF last.before = <<>> THEN last.init_date
    ELSE CHOOSE d \in {last.before[i].date : i \in 1..Len(last.before)} :
             \A i \in 1..Len(last.before) : last.before[i].date <= d
\* the calendar rule: every day for crypto and futures, Monday to Friday
\* (days 1..5 of each week) for stocks
Tradeable(d) ==
    asset_type \in {"crypto", "futures"} \/ (d - 1) % 7 \in 0..4
Returned == {last.dates[i] : i \in 1..Len(last.dates)}

\* C18: get_trading_dates returns, in strictly increasing order, exactly the
\* dates d with lastDate < d <= endDate that pass the calendar rule (every
\* day for crypto and futures, Monday to Friday for stocks), and the empty
\* list when endDate <= the ledger's last date; an existing ledger is left
\* as it was.
C18_TradingDates ==
    GotDates =>
        /\ \A i, j \in 1..Len(last.dates) :
               i < j => last.dates[i] < last.dates[j]
        /\ Returned = {d \in 0..(MaxDay + 1) :
                          /\ LedgerLastDate < d /\ d <= last.end_date
                          /\ Tradeable(d)}
        /\ last.end_date <= LedgerLastDate => last.dates = <<>>
        /\ last.before # <<>> => ledger = last.before

\* a stock agent was given a range that spans a weekend, after the last
\* date of a ledger with a trade
C18_Witness ==
    /\ GotDates /\ asset_type = "stock"
    /\ Len(last.before) = 2
    /\ LedgerLastDate = 4 /\ last.end_date = 9
    /\ last.dates = <<5, 8, 9>>

\* the later of two days
Later(a, b) == IF a >= b THEN a ELSE b

\* C19: the first candidate date of get_trading_dates is
\* max(ledgerLastDate, initDate) + 1, with ledgerLastDate = initDate when
\* the call had to register the ledger; no date <= initDate is returned.
C19_FirstCandidate ==
    GotDates =>
        /\ Returned = {d \in 0..(MaxDay + 1) :
                          /\ Later(LedgerLastDate, last.init_date) < d
                          /\ d <= last.end_date
                          /\ Tradeable(d)}
        /\ \A d \in Returned : d > last.init_date

\* C19 for a ledger whose last date is not before init_date
C19_FromLedgerLastDate ==
    (GotDates /\ LedgerLastDate >= last.init_date) =>
        /\ Returned = {d \in 0..(MaxDay + 1) :
                          /\ Later(LedgerLastDate, last.init_date) < d
                          /\ d <= last.end_date
                          /\ Tradeable(d)}
        /\ \A d \in Returned : d > last.init_date

----------------------------------------------------------------------------
(* run_date_range hour by hour: the loop nest "for date in trading_dates: *)
(* for hour in range(9, 17)" with its hours kept.  The agent's calls are  *)
(* a stock buy and a crypto buy of one unit.                              *)

\* the loop nest with the date never advanced: the hours start over
next_session_same_date(dates, h) ==
    [trading_dates |-> dates,
     hour |-> IF h < LastHour THEN h + 1 ELSE FirstHour]

\* what the loop nest presents after hour h of the first of dates
next_session(dates, h) ==
    IF h < LastHour
    THEN [trading_dates |-> dates, hour |-> h + 1]
    ELSE [trading_dates |-> Tail(dates), hour |-> FirstHour]

RunOps == {"buy", "buy_crypto"}
RunSymbols == {"ZS", "ETH"}

RunTrade ==
    \E op \in RunOps, symbol \in RunSymbols :
        ToolCall(op, symbol, 1, tool(op, ledger, config, symbol, 1))

\* run_hourly_trading_session ends normally: the result is handled and the
\* loop nest moves to its next hour
EndHourlySession ==
    /\ pc = "session"
    /\ LET h == handle_trading_result(config, no_trade, Head(trading_dates))
           n == next_session(trading_dates, hour)
       IN  /\ Len(h.no_trade) <= MaxRunMarkers
           /\ config' = h.config
           /\ no_trade' = h.no_trade
           /\ trading_dates' = n.trading_dates
           /\ hour' = n.hour
           /\ pc' = IF n.trading_dates = <<>> THEN "idle" ELSE "loop"
    /\ session_start' = 0
    /\ last' = [op |-> "session_end"]
    /\ UNCHANGED <<ledger, asset_type>>

NextRun ==
    \/ RunDateRange
    \/ StartSession
    \/ RunTrade
    \/ EndHourlySession
    \/ SessionRaises

SpecRun == Init /\ [][NextRun]_vars

\* C20: run_date_range presents sessions in non-decreasing date order: the
\* session that follows another in a run is of a later date, or of the same
\* date and a later hour; each session is started with the date and hour the
\* loop nest stands at.
C20_SessionOrder ==
    [][/\ (pc = "loop" /\ pc' = "session") =>
             /\ config'.TODAY_DATE = Head(trading_dates)
             /\ hour' = hour /\ hour \in FirstHour..LastHour
             /\ trading_dates' = trading_dates
       /\ (pc = "session" /\ pc' = "loop") =>
             \/ Head(trading_dates') > config.TODAY_DATE
             \/ /\ Head(trading_dates') = config.TODAY_DATE
                /\ hour' > hour]_vars

\* the eight hourly sessions of the first date are over and the first
\* session of the next date is about to start
C20_Witness ==
    /\ pc = "loop" /\ last.op = "session_end"
    /\ hour = FirstHour
    /\ trading_dates = <<EndDate>>
    /\ config.TODAY_DATE = EndDate - 1
    /\ Len(ledger) > 1

----------------------------------------------------------------------------

\* C21: in every reachable ledger the entry dates are non-decreasing in
\* append order, and so are the ids of the entries that carry one: insertion
\* order, id order and date order coincide after any sequence of
\* registration, scheduled sessions and trades.
C21_DatesNonDecreasing ==
    \A i, j \in Entries :
        i < j =>
            /\ ledger[i].date <= ledger[j].date
            /\ ("id" \in DOMAIN ledger[i] /\ "id" \in DOMAIN ledger[j])
                   => ledger[i].id < ledger[j].id

\* trades of two dates follow the genesis line
C21_Witness ==
    /\ Len(ledger) = 3
    /\ ledger[1].date < ledger[2].date
    /\ ledger[2].date < ledger[3].date

\* run_date_range has finished the last session of its last date
RunFinished == pc = "idle" /\ last.op = "session_end"
\* what get_trading_dates(init, end) returns next
PendingAgain ==
    LET dates == get_trading_dates(ledger, asset_type, InitDate, EndDate).dates
    IN  {dates[i] : i \in 1..Len(dates)}

\* C22: a date whose sessions have all completed is not processed again:
\* once run_date_range(init, end) has finished every session of its dates,
\* get_trading_dates(init, end) returns none of them (none up to the last
\* date processed), whether or not a trade occurred on them.
C22_NoReprocessing ==
    RunFinished => \A d \in PendingAgain : d > config.TODAY_DATE

\* C22 for a run whose last date has a trade in the ledger
C22_AfterTradeOnLastDate ==
    (RunFinished /\ ledger[Len(ledger)].date = config.TODAY_DATE)
        => \A d \in PendingAgain : d > config.TODAY_DATE

----------------------------------------------------------------------------
(* The price lookups over price series.  A series is a file as its writer
   leaves it: data/get_crypto_prices.py keys every hourly bar
   "YYYY-MM-DD HH:00:00"; data/convert_csv_to_json.py keys a bar
   "YYYY-MM-DD HH:MM:SS" except a bar of hour 0, whose key is its date
   alone.  Each bar carries values of its own, so that a result names the
   bar it was read from. *)

SeriesDates == {1, 2}
PriceTypes == {"open", "close"}
Minutes(h, m) == h * 3600 + m * 60
CryptoKeys == {Key(d, h, 0) : d \in SeriesDates, h \in {0, 9, 11, 23}}
FuturesKeys ==
    {<<d, t>> : d \in SeriesDates,
                t \in {NoTime, Minutes(9, 0), Minutes(10, 0), Minutes(23, 59)}}
TargetTimes == {Minutes(9, 0), Minutes(9, 30), Minutes(23, 59)}

\* the moment a key stands for: a date-only key is the bar of midnight
Moment(k) == IF KeyTime(k) = NoTime THEN 0 ELSE KeyTime(k)
BarAt(k) == Bar(1000 * KeyDate(k) + 2 * (Moment(k) \div 60) + 2,
                1000 * KeyDate(k) + 2 * (Moment(k) \div 60) + 3)
SeriesOver(keys) ==
    {[k \in S |-> BarAt(k)] : S \in {T \in SUBSET keys : Cardinality(T) <= MaxSeries}}

\* the arguments of a lookup: a series and the date, time and field asked
SeriesInputs ==
    {[op |-> "series", data |-> data, target_date |-> d, target_time |-> t,
      price_type |-> f] :
        data \in SeriesOver(CryptoKeys) \cup SeriesOver(FuturesKeys),
        d \in SeriesDates, t \in TargetTimes, f \in PriceTypes}

\* the arguments of a lookup by symbol, the date unset (None) included
LookupDates == {NoDate} \cup (InitDate - 1)..EndDate
SymbolInputs ==
    {[op |-> "symbol", symbol |-> symbol, target_date |-> d,
      target_time |-> t, price_type |-> f] :
        symbol \in Symbols, d \in LookupDates, t \in TargetTimes,
        f \in PriceTypes}

InitPrices ==
    /\ ledger = <<>>
    /\ config = [SIGNATURE |-> Signature, TODAY_DATE |-> EndDate,
                 IF_TRADE |-> FALSE]
    /\ asset_type = "futures"
    /\ trading_dates = <<>>
    /\ pc = "idle"
    /\ no_trade = <<>>
    /\ hour = FirstHour
    /\ session_start = 0
    /\ last \in SeriesInputs \cup SymbolInputs

Looked(op, result) ==
    [op |-> op, data |-> last.data, target_date |-> last.target_date,
     target_time |-> last.target_time, price_type |-> last.price_type,
     result |-> result]

CryptoPriceOnDate ==
    /\ last.op = "series"
    /\ DOMAIN last.data \subseteq CryptoKeys
    /\ last' = Looked("get_crypto_price_on_date",
                      crypto_price_on_date_in(last.data, last.target_date,
                                              last.price_type))
    /\ UNCHANGED <<ledger, config, asset_type, trading_dates, pc, no_trade,
                   hour, session_start>>

FuturesPriceOnDate ==
    /\ last.op = "series"
    /\ DOMAIN last.data \subseteq FuturesKeys
    /\ last' = Looked("get_futures_price_on_date",
                      futures_price_at_time_in(last.data, last.target_date,
                                               Minutes(23, 59), last.price_type))
    /\ UNCHANGED <<ledger, config, asset_type, trading_dates, pc, no_trade,
                   hour, session_start>>

FuturesPriceAtTime ==
    /\ last.op = "series"
    /\ DOMAIN last.data \subseteq FuturesKeys
    /\ last' = Looked("get_futures_price_at_time",
                      futures_price_at_time_in(last.data, last.target_date,
                                               last.target_time, last.price_type))
    /\ UNCHANGED <<ledger, config, asset_type, trading_dates, pc, no_trade,
                   hour, session_start>>

LookedUp(op, result) ==
    [op |-> op, symbol |-> last.symbol, target_date |-> last.target_date,
     target_time |-> last.target_time, price_type |-> last.price_type,
     result |-> result]

\* the lookups as the callers make them, by symbol, over the price files
CryptoPriceOfSymbol ==
    /\ last.op = "symbol"
    /\ last' = LookedUp("crypto_price_of_symbol",
                        get_crypto_price_on_date(last.symbol, last.target_date,
                                                 last.price_type))
    /\ UNCHANGED <<ledger, config, asset_type, trading_dates, pc, no_trade,
                   hour, session_start>>

FuturesPriceOfSymbol ==
    /\ last.op = "symbol"
    /\ last' = LookedUp("futures_price_of_symbol",
                        get_futures_price_on_date(last.symbol, last.target_date,
                                                  last.price_type))
    /\ UNCHANGED <<ledger, config, asset_type, trading_dates, pc, no_trade,
                   hour, session_start>>

FuturesPriceOfSymbolAtTime ==
    /\ last.op = "symbol"
    /\ last' = LookedUp("futures_price_of_symbol_at_time",
                        get_futures_price_at_time(last.symbol, last.target_date,
                                                  last.target_time,
                                                  last.price_type))
    /\ UNCHANGED <<ledger, config, asset_type, trading_dates, pc, no_trade,
                   hour, session_start>>

NextPrices ==
    \/ CryptoPriceOnDate \/ FuturesPriceOnDate \/ FuturesPriceAtTime
    \/ CryptoPriceOfSymbol \/ FuturesPriceOfSymbol
    \/ FuturesPriceOfSymbolAtTime

SpecPrices == InitPrices /\ [][NextPrices]_vars

OnDateLookup ==
    last.op \in {"get_crypto_price_on_date", "get_futures_price_on_date"}
OnTargetDate == {k \in DOMAIN last.data : KeyDate(k) = last.target_date}
LatestOnTargetDate ==
    CHOOSE k \in OnTargetDate : \A j \in OnTargetDate : Moment(j) <= Moment(k)
DateOnlyKeyOnTargetDate == \E k \in OnTargetDate : KeyTime(k) = NoTime

\* C23: the price-on-date lookup (get_crypto_price_on_date without hour,
\* get_futures_price_on_date) returns the requested field of the latest
\* timestamp among the timestamps of the series that have the date as
\* prefix, and None, not an exception, when no timestamp matches the date.
C23_PriceOnDate ==
    OnDateLookup =>
        last.result = IF OnTargetDate = {} THEN None
                      ELSE Ok(last.data[LatestOnTargetDate][last.price_type])

\* C23 for the series in which every key of the date carries a time
C23_TimedKeys ==
    (OnDateLookup /\ ~DateOnlyKeyOnTargetDate) =>
        last.result = IF OnTargetDate = {} THEN None
                      ELSE Ok(last.data[LatestOnTargetDate][last.price_type])

AtTimeLookup == last.op = "get_futures_price_at_time"
Distance(k) == Abs(Moment(k) - last.target_time)
ClosestOnTargetDate ==
    CHOOSE k \in OnTargetDate :
        \A j \in OnTargetDate :
            \/ Distance(k) < Distance(j)
            \/ Distance(k) = Distance(j) /\ Moment(k) <= Moment(j)
AtTimeExpected ==
    IF <<last.target_date, last.target_time>> \in DOMAIN last.data
    THEN Ok(last.data[<<last.target_date, last.target_time>>][last.price_type])
    ELSE IF OnTargetDate = {} THEN None
    ELSE Ok(last.data[ClosestOnTargetDate][last.price_type])

\* C24: get_futures_price_at_time returns the field of the exactly matching
\* timestamp when the series has it; otherwise the field of the timestamp of
\* that date with the smallest absolute time difference to the target, the
\* earliest of equally close ones; and None when the series has no
\* timestamp on that date.
C24_PriceAtTime == AtTimeLookup => last.result = AtTimeExpected

\* C24 for the series in which every key of the date carries a time
C24_TimedKeys ==
    (AtTimeLookup /\ ~DateOnlyKeyOnTargetDate) => last.result = AtTimeExpected

\* a tie: 09:30 asked of a series with 09:00 and 10:00 and no 09:30
C24_TieAnswered ==
    /\ AtTimeLookup
    /\ last.target_time = Minutes(9, 30)
    /\ {<<last.target_date, Minutes(9, 0)>>, <<last.target_date, Minutes(10, 0)>>}
           = OnTargetDate
    /\ last.result = Ok(last.data[<<last.target_date, Minutes(9, 0)>>][last.price_type])

CryptoLookup == last.op = "crypto_price_of_symbol"
FuturesLookup ==
    last.op \in {"futures_price_of_symbol", "futures_price_of_symbol_at_time"}
UnknownSymbol ==
    \/ CryptoLookup /\ last.symbol \notin SUPPORTED_CRYPTOS
    \/ FuturesLookup /\ last.symbol \notin SUPPORTED_FUTURES
\* a known symbol whose price file has no timestamp of the date asked
KnownSymbolNoData ==
    /\ last.target_date # NoDate
    /\ \/ /\ CryptoLookup /\ last.symbol \in SUPPORTED_CRYPTOS
          /\ \A k \in DOMAIN CryptoFile(last.symbol) :
                 KeyDate(k) # last.target_date
       \/ /\ FuturesLookup /\ last.symbol \in SUPPORTED_FUTURES
          /\ \A k \in DOMAIN FuturesFile(last.symbol) :
                 KeyDate(k) # last.target_date

\* C25: a price lookup on an unsupported symbol fails with the unknown-symbol
\* error (ValueError) whatever the date, time and field asked, the date left
\* unset included: the symbol is checked before the file is read and before
\* any date is looked up.  A known symbol with no data on the date yields
\* None, so the two outcomes are told apart.
C25_UnknownSymbol ==
    /\ UnknownSymbol => last.result = Raise("ValueError")
    /\ KnownSymbolNoData => last.result = None

C25_Witness ==
    /\ CryptoLookup /\ last.symbol = "NQ1" /\ last.target_date = EndDate
    /\ last.result = Raise("ValueError")

\* the futures side, and the None of a known symbol
C25_FuturesUnknown ==
    FuturesLookup /\ last.symbol = "ETH" /\ last.result = Raise("ValueError")
C25_KnownNoData ==
    FuturesLookup /\ last.symbol = "NQ1" /\ last.target_date = 7
    /\ last.result = None

\* the symbol of the call is not of the universe of the tool called: no
\* series of that name for the stock tools, not a supported symbol for the
\* crypto and futures tools
UnknownToTool ==
    \/ last.op \in {"buy", "sell"} /\ StockFile(last.symbol) = <<>>
    \/ Unsupported
\* the symbol is of the universe and has no price recorded for TODAY_DATE
MissingPrice ==
    \/ /\ last.op \in {"buy", "sell"}
       /\ StockFile(last.symbol) # <<>>
       /\ config.TODAY_DATE \notin DOMAIN StockFile(last.symbol)
    \/ /\ last.op \in {"buy_crypto", "sell_crypto"}
       /\ last.symbol \in SUPPORTED_CRYPTOS
       /\ \A k \in DOMAIN CryptoFile(last.symbol) :
              KeyDate(k) # config.TODAY_DATE
    \/ /\ last.op \in {"buy_futures", "sell_futures"}
       /\ last.symbol \in SUPPORTED_FUTURES
       /\ \A k \in DOMAIN FuturesFile(last.symbol) :
              KeyDate(k) # config.TODAY_DATE
PriceNotAvailableError ==
    /\ last.result.kind = "error"
    /\ last.result.error = "Price not available"
    /\ last.result.symbol = last.symbol
    /\ last.result.date = config.TODAY_DATE

\* C26: the result of buy/sell tells a symbol that is not of the universe
\* from a symbol that has no price recorded for the date, for the stock,
\* crypto and futures tools alike: the missing price yields the error
\* "Price ... not available on ..." and leaves the ledger as it was, and an
\* unknown symbol never yields that error.
C26_ErrorsDistinguished ==
    Called =>
        /\ MissingPrice => PriceNotAvailableError /\ ledger = last.before
        /\ UnknownToTool => ~PriceNotAvailableError

\* C26 for the crypto and futures tools
C26_CryptoAndFutures ==
    (Called /\ last.op \notin {"buy", "sell"}) =>
        /\ MissingPrice => PriceNotAvailableError /\ ledger = last.before
        /\ UnknownToTool => ~PriceNotAvailableError

----------------------------------------------------------------------------
(* The readers of the position file after a crash in the middle of an     *)
(* append: the file ends with a line that is blank or is the beginning of *)
(* an entry.                                                              *)

\* the trailing line a crash leaves
TornLine(t) == [torn |-> t]
Torn(line) == "torn" \in DOMAIN line

\* json.loads(line): a blank line and a cut one are rejected
json_loads(line) ==
    IF Torn(line) THEN Raise("JSONDecodeError") ELSE Ok(line)

\* BaseAgent.get_trading_dates over an existing file: every line is handed
\* to json.loads before its date is read
get_trading_dates_of_file(led, atype, init_date, end_date) ==
    IF \E i \in 1..Len(led) : json_loads(led[i]).tag = "raise"
    THEN Raise("JSONDecodeError")
    ELSE Ok(get_trading_dates(led, atype, init_date, end_date).dates)

\* get_position_summary that reports the first line of the file
get_position_summary_first(exists, led, signature) ==
    IF ~exists THEN Ok([error |-> "Position file does not exist"])
    ELSE IF led = <<>> THEN Ok([error |-> "No position records"])
    ELSE Ok([signature |-> signature,
             latest_date |-> led[1].date,
             positions |-> led[1].positions,
             total_records |-> Len(led)])

\* BaseAgent.get_position_summary; exists is os.path.exists(position_file)
get_position_summary(exists, led, signature) ==
    IF ~exists THEN Ok([error |-> "Position file does not exist"])
    ELSE IF \E i \in 1..Len(led) : json_loads(led[i]).tag = "raise"
    THEN Raise("JSONDecodeError")
    ELSE IF led = <<>> THEN Ok([error |-> "No position records"])
    ELSE LET latest_position == led[Len(led)]
         IN  Ok([signature |-> signature,
                 latest_date |-> latest_position.date,
                 positions |-> latest_position.positions,
                 total_records |-> Len(led)])

CrashedLedgers ==
    {led \o <<TornLine(t)>> :
        led \in EarlierLedgers \ {<<>>}, t \in {"blank", "partial"}}

InitCrash ==
    /\ ledger \in EarlierLedgers \cup CrashedLedgers
    /\ config = [SIGNATURE |-> Signature, TODAY_DATE |-> EndDate,
                 IF_TRADE |-> FALSE]
    /\ asset_type \in AssetTypes
    /\ trading_dates = <<>>
    /\ pc = "idle"
    /\ no_trade = <<>>
    /\ last = NoCall
    /\ hour = FirstHour
    /\ session_start = 0

ReadTradingDates ==
    /\ ledger # <<>>
    /\ \E init_date \in Days, end_date \in Days :
           last' = [op |-> "get_trading_dates", init_date |-> init_date,
                    end_date |-> end_date, before |-> ledger,
                    result |-> get_trading_dates_of_file(ledger, asset_type,
                                                         init_date, end_date)]
    /\ UNCHANGED <<ledger, config, asset_type, trading_dates, pc, no_trade,
                   hour, session_start>>

\* a file without entries is either missing or empty
GetPositionSummary ==
    /\ \E exists \in BOOLEAN :
           /\ ledger # <<>> => exists
           /\ last' = [op |-> "get_position_summary", before |-> ledger,
                       exists |-> exists,
                       result |-> get_position_summary(exists, ledger,
                                                       config.SIGNATURE)]
    /\ UNCHANGED <<ledger, config, asset_type, trading_dates, pc, no_trade,
                   hour, session_start>>

NextCrash == ReadTradingDates \/ GetPositionSummary

SpecCrash == InitCrash /\ [][NextCrash]_vars

ReadAfterCrash ==
    /\ last.op \in {"get_trading_dates", "get_position_summary"}
    /\ last.before # <<>>
    /\ Torn(last.before[Len(last.before)])
\* the file up to its last complete entry
Complete(led) == SubSeq(led, 1, Len(led) - 1)

\* C27: when a crash has left a cut or blank trailing line in the position
\* file, get_trading_dates and get_position_summary skip it: they return
\* what they return for the file that ends at the last complete entry,
\* without failing and without taking the cut line for a snapshot.
C27_TornLineSkipped ==
    ReadAfterCrash =>
        last.result =
            IF last.op = "get_trading_dates"
            THEN get_trading_dates_of_file(Complete(last.before), asset_type,
                                           last.init_date, last.end_date)
            ELSE get_position_summary(TRUE, Complete(last.before),
                                      config.SIGNATURE)

\* the readers do not fail on a file of complete entries
C27_CompleteFileRead ==
    (/\ last.op \in {"get_trading_dates", "get_position_summary"}
     /\ \A i \in 1..Len(last.before) : ~Torn(last.before[i]))
        => last.result.tag = "ok"

FuturesPriced == Priced /\ last.op \in {"buy_futures", "sell_futures"}

\* C28: the futures trades apply the fixed contract multiplier 20 on both
\* sides: buy_futures is refused with "Insufficient cash" exactly when CASH
\* is less than price * 20 * contracts and otherwise writes CASH less that
\* amount; sell_futures of contracts that are held writes CASH plus
\* price * 20 * contracts.  CASH is the cash of the holdings the call read.
C28_ContractMultiplier ==
    /\ (FuturesPriced /\ last.op = "buy_futures") =>
           /\ InsufficientCashError <=> Held["CASH"] < Price * 20 * last.amount
           /\ InsufficientCashError =>
                  last.result.required_cash = Price * 20 * last.amount
           /\ ~InsufficientCashError =>
                  /\ Appended
                  /\ Written.positions["CASH"]
                         = Held["CASH"] - Price * 20 * last.amount
    /\ (FuturesPriced /\ last.op = "sell_futures"
            /\ Get(Held, last.symbol, 0) >= last.amount) =>
           /\ Appended
           /\ Written.positions["CASH"]
                  = Held["CASH"] + Price * 20 * last.amount

C28_Witness ==
    /\ FuturesPriced /\ last.op = "buy_futures" /\ Appended
    /\ Written.positions["CASH"] = Held["CASH"] - Price * 20 * last.amount
    /\ Price > 0

\* the other side, and a refusal that the price alone would not cause
C28_SellCredited ==
    /\ FuturesPriced /\ last.op = "sell_futures" /\ Appended
    /\ Written.positions["CASH"] = Held["CASH"] + Price * 20 * last.amount
    /\ Price > 0
C28_RefusedByMultiplier ==
    /\ FuturesPriced /\ last.op = "buy_futures" /\ InsufficientCashError
    /\ Held["CASH"] >= Price * last.amount

\* the bar of the latest timestamp of TODAY_DATE in a series
LatestBarToday(data) ==
    LET today == {k \in DOMAIN data : KeyDate(k) = config.TODAY_DATE}
    IN  data[CHOOSE k \in today : \A j \in today : KeyTime(j) <= KeyTime(k)]
\* the opening price of TODAY_DATE for the symbol of the call, read from the
\* price files: the open of the day's bar of a stock, the open of the bar
\* that the price-on-date lookup selects for crypto and futures
OpenToday ==
    IF last.op \in {"buy", "sell"}
    THEN StockFile(last.symbol)[config.TODAY_DATE].open
    ELSE IF last.op \in {"buy_crypto", "sell_crypto"}
    THEN LatestBarToday(CryptoFile(last.symbol)).open
    ELSE LatestBarToday(FuturesFile(last.symbol)).open
CloseToday ==
    IF last.op \in {"buy", "sell"}
    THEN StockFile(last.symbol)[config.TODAY_DATE].close
    ELSE IF last.op \in {"buy_crypto", "sell_crypto"}
    THEN LatestBarToday(CryptoFile(last.symbol)).close
    ELSE LatestBarToday(FuturesFile(last.symbol)).close

\* C29: buy and sell, for stock, crypto and futures, execute at the opening
\* price of the target date: the cash a trade takes or gives is the open
\* times the quantity (times the multiplier for futures), never the close,
\* and a buy and a sell of a symbol on one date use the same price; a buy
\* refused for cash was priced at the open too.
C29_OpeningPrice ==
    /\ (Called /\ Appended /\ last.op \in BuyOps) =>
           Written.positions["CASH"]
               = Held["CASH"] - Cost(last.op, OpenToday, last.amount)
    /\ (Called /\ Appended /\ last.op \in SellOps) =>
           Written.positions["CASH"]
               = Held["CASH"] + Cost(last.op, OpenToday, last.amount)
    /\ (Called /\ InsufficientCashError) =>
           last.result.required_cash = Cost(last.op, OpenToday, last.amount)

\* a crypto sell that follows a crypto buy of the date, the open and the
\* close of the bar being different
C29_Witness ==
    /\ last.op = "sell_crypto" /\ Appended
    /\ OpenToday # CloseToday
    /\ "this_action" \in DOMAIN last.before[Len(last.before)]
    /\ last.before[Len(last.before)].this_action.action = "buy_crypto"
    /\ last.before[Len(last.before)].date = config.TODAY_DATE
    /\ Written.positions["CASH"] = Held["CASH"] + OpenToday * last.amount

C29_StockAtOpen ==
    /\ last.op = "buy" /\ Appended /\ OpenToday # CloseToday
    /\ Written.positions["CASH"] = Held["CASH"] - OpenToday * last.amount
C29_FuturesAtOpen ==
    /\ last.op = "sell_futures" /\ Appended /\ OpenToday # CloseToday
    /\ Written.positions["CASH"] = Held["CASH"] + OpenToday * 20 * last.amount

SellOf(op) ==
    IF op = "buy" THEN "sell"
    ELSE IF op = "buy_crypto" THEN "sell_crypto" ELSE "sell_futures"
\* a step that sells, on the same date, the quantity of the symbol that the
\* call before it has just bought
SellsWhatWasBought ==
    /\ last.op \in BuyOps /\ Appended
    /\ last'.op = SellOf(last.op)
    /\ last'.symbol = last.symbol /\ last'.amount = last.amount
    /\ last'.before = ledger
    /\ config'.TODAY_DATE = config.TODAY_DATE
\* the ledger is two entries longer than before the buy and its last entry
\* has the CASH and the quantity of the symbol that held before the buy
RestoredAfterSell ==
    /\ Len(ledger') = Len(last.before) + 2
    /\ ledger'[Len(ledger')].positions["CASH"] = Held["CASH"]
    /\ Get(ledger'[Len(ledger')].positions, last.symbol, 0)
           = Get(Held, last.symbol, 0)

\* C30: a successful buy of quantity q of a symbol followed at once by a
\* sell of the same quantity on the same date restores the CASH and the
\* quantity of the symbol that held before the buy, and the ledger grows by
\* exactly two entries; for stock, crypto and futures.
C30_BuyThenSellRestores ==
    [][SellsWhatWasBought => RestoredAfterSell]_vars

\* C30 for the stock and crypto tools
C30_StockAndCrypto ==
    [][(SellsWhatWasBought /\ last.op \in {"buy", "buy_crypto"})
           => RestoredAfterSell]_vars

\* a summary asked of a file whose lines are all complete entries
SummaryOfCompleteFile ==
    /\ last.op = "get_position_summary"
    /\ \A i \in 1..Len(last.before) : ~Torn(last.before[i])

\* C31: get_position_summary reports the last entry of the ledger file:
\* latest_date and positions are those of the last line and total_records
\* is the number of entries; when the file does not exist, or holds no
\* entries, it returns an error payload ("... does not exist", "No position
\* records") and raises nothing.
C31_PositionSummary ==
    SummaryOfCompleteFile =>
        /\ last.result.tag = "ok"
        /\ ~last.exists =>
               last.result.value = [error |-> "Position file does not exist"]
        /\ (last.exists /\ last.before = <<>>) =>
               last.result.value = [error |-> "No position records"]
        /\ last.before # <<>> =>
               /\ "error" \notin DOMAIN last.result.value
               /\ last.result.value.signature = config.SIGNATURE
               /\ last.result.value.latest_date
                      = last.before[Len(last.before)].date
               /\ last.result.value.positions
                      = last.before[Len(last.before)].positions
               /\ last.result.value.total_records = Len(last.before)

C31_Witness ==
    /\ SummaryOfCompleteFile /\ Len(last.before) = 2
    /\ last.before[1].date # last.before[2].date
    /\ last.result.value.latest_date = last.before[2].date
    /\ last.result.value.total_records = 2

C31_EmptyFile ==
    /\ SummaryOfCompleteFile /\ last.exists /\ last.before = <<>>
    /\ last.result = Ok([error |-> "No position records"])
C31_NoFile ==
    /\ SummaryOfCompleteFile /\ ~last.exists
    /\ last.result = Ok([error |-> "Position file does not exist"])

FuturesOnDateLookup == last.op = "get_futures_price_on_date"

\* C32: the two definitions of get_futures_price_on_date agree: for every
\* price series and date, asking get_futures_price_at_time for 23:59 (the
\* second definition, in force) yields the same value, None or failure as
\* scanning for the latest timestamp with the date as prefix (the first
\* definition), date-only keys included.
C32_DefinitionsAgree ==
    FuturesOnDateLookup =>
        last.result = futures_price_on_date_scan_in(last.data, last.target_date,
                                                    last.price_type)

\* C32 for the series in which every key of the date carries a time
C32_TimedKeys ==
    (FuturesOnDateLookup /\ ~DateOnlyKeyOnTargetDate) =>
        last.result = futures_price_on_date_scan_in(last.data, last.target_date,
                                                    last.price_type)

----------------------------------------------------------------------------
(* One trading session, step by step: BaseAgent.run_trading_session and   *)
(* run_hourly_trading_session, whose loops are the same.  last is the     *)
(* frame of the running call, pc the statement it stands at.  A call of   *)
(* agent.ainvoke returns a response or raises; during it the agent may    *)
(* call a trade tool.                                                     *)

\* BaseAgent.__init__: max_steps, max_retries
max_steps == 10
max_retries == 3

\* what extract_conversation(response, "final") gives: a text with the stop
\* signal, a text without it, or None
Responses == {"stop", "tools", "none"}

Frame(current_step, attempt, handled, stopped_at) ==
    [op |-> "run_trading_session", current_step |-> current_step,
     attempt |-> attempt, handled |-> handled, stopped_at |-> stopped_at]

InitSession ==
    /\ ledger = register_agent(<<>>)
    /\ config = [SIGNATURE |-> Signature, TODAY_DATE |-> EndDate,
                 IF_TRADE |-> FALSE]
    /\ asset_type = "stock"
    /\ trading_dates = <<EndDate>>
    /\ pc = "while"
    /\ no_trade = <<>>
    /\ last = Frame(0, 0, 0, 0)
    /\ hour = FirstHour
    /\ session_start = Len(ledger)

\* while current_step < max_steps with no test of the bound
EnterStepUnbounded ==
    /\ pc = "while"
    /\ last' = [last EXCEPT !.current_step = @ + 1, !.attempt = 1]
    /\ pc' = "ainvoke"
    /\ UNCHANGED <<ledger, config, asset_type, trading_dates, no_trade, hour,
                   session_start>>

\* while current_step < max_steps: current_step += 1, then the first attempt
EnterStep ==
    /\ pc = "while"
    /\ last.current_step < max_steps
    /\ last' = [last EXCEPT !.current_step = @ + 1, !.attempt = 1]
    /\ pc' = "ainvoke"
    /\ UNCHANGED <<ledger, config, asset_type, trading_dates, no_trade, hour,
                   session_start>>

\* the loop condition fails: on to _handle_trading_result
ExitLoop ==
    /\ pc = "while"
    /\ ~(last.current_step < max_steps)
    /\ pc' = "handle"
    /\ UNCHANGED <<ledger, config, asset_type, trading_dates, no_trade, last,
                   hour, session_start>>

\* agent.ainvoke returns; the agent has called buy("ZS", 1) during it or has
\* called no tool.  The stop signal breaks the loop; "in" applied to None
\* raises TypeError, which the except clause raises again.
InvokeReturns ==
    /\ pc = "ainvoke"
    /\ \E response \in Responses, traded \in BOOLEAN :
           LET out == IF traded THEN buy(ledger, config, "ZS", 1)
                      ELSE Outcome(ledger, config, Positions(<<>>))
           IN  /\ traded => Len(ledger) < MaxLedger
               /\ ledger' = out.ledger
               /\ config' = out.config
               /\ pc' = CASE response = "stop" -> "handle"
                          [] response = "tools" -> "while"
                          [] OTHER -> "raised"
               /\ last' = IF response = "stop"
                          THEN [last EXCEPT !.stopped_at = last.current_step]
                          ELSE last
    /\ UNCHANGED <<asset_type, trading_dates, no_trade, hour, session_start>>

\* _ainvoke_with_retry: agent.ainvoke raises; the last attempt raises on
InvokeFails ==
    /\ pc = "ainvoke"
    /\ IF last.attempt = max_retries
       THEN pc' = "raised" /\ last' = last
       ELSE pc' = pc /\ last' = [last EXCEPT !.attempt = @ + 1]
    /\ UNCHANGED <<ledger, config, asset_type, trading_dates, no_trade, hour,
                   session_start>>

\* await self._handle_trading_result(today_date), then the method returns
HandleTradingResult ==
    /\ pc = "handle"
    /\ LET h == handle_trading_result(config, no_trade, config.TODAY_DATE) IN
       /\ config' = h.config
       /\ no_trade' = h.no_trade
    /\ last' = [last EXCEPT !.handled = @ + 1]
    /\ pc' = "returned"
    /\ UNCHANGED <<ledger, asset_type, trading_dates, hour, session_start>>

NextSession ==
    \/ EnterStep \/ ExitLoop \/ InvokeReturns \/ InvokeFails
    \/ HandleTradingResult

\* the coroutine keeps running, and every call of agent.ainvoke returns or
\* raises
SpecSession == InitSession /\ [][NextSession]_vars /\ WF_vars(NextSession)

SessionReturned == pc = "returned"
SessionRaised == pc = "raised"

\* C33: a trading session always terminates: it performs at most max_steps
\* agent steps, ends at the first response that contains the stop signal
\* (no step follows it), and when it terminates normally the session-end
\* handler has run exactly once; when a step raises, the exception leaves
\* the session and the handler has not run.
C33_SessionTerminates ==
    /\ [](/\ last.current_step <= max_steps
          /\ last.handled <= 1
          /\ last.stopped_at # 0 =>
                 /\ last.current_step = last.stopped_at
                 /\ pc \in {"handle", "returned"}
          /\ SessionReturned => last.handled = 1
          /\ SessionRaised => last.handled = 0)
    /\ <>(SessionReturned \/ SessionRaised)

\* a session that used all its steps and ended normally
C33_Witness ==
    /\ SessionReturned /\ last.current_step = max_steps
    /\ last.stopped_at = 0 /\ last.handled = 1

C33_StoppedEarly ==
    /\ SessionReturned /\ last.stopped_at = 2 /\ last.handled = 1
C33_RaisedAfterRetries ==
    /\ SessionRaised /\ last.attempt = max_retries /\ last.handled = 0

\* a step of a session that appends a line to the ledger
AppendsInSession == pc = "session" /\ Len(ledger') = Len(ledger) + 1
\* a step by which a session ends with an exception
RaisesInSession ==
    pc = "session" /\ pc' # "session" /\ last' # [op |-> "session_end"]

\* C34: in run_date_range TODAY_DATE and SIGNATURE are written before each
\* session starts, so every trade appended during a session carries the
\* date of that session; and when a session raises, no later session of
\* the range is started: the run is over with no date left to process.
C34_SessionDate ==
    [][/\ (pc = "loop" /\ pc' = "session") =>
              /\ config'.TODAY_DATE = Head(trading_dates)
              /\ config'.SIGNATURE = Signature
       /\ AppendsInSession =>
              /\ ledger'[Len(ledger')].date = Head(trading_dates)
              /\ trading_dates' = trading_dates
       /\ RaisesInSession =>
              /\ pc' = "idle"
              /\ trading_dates' = <<>>]_vars

\* a trade appended in a session of a date other than the date the
\* configuration held before the run
C34_Witness ==
    /\ pc = "session" /\ Appended
    /\ Head(trading_dates) = EndDate - 1
    /\ Written.date = EndDate - 1

----------------------------------------------------------------------------
(* Two trade calls on one ledger that may overlap.  A tool function reads *)
(* the latest position at its beginning and appends its line at its end,  *)
(* with no lock in between: each call is two steps, and last holds the    *)
(* frames of the two calls.                                               *)

OverlapSymbols == {"ZS", "ETH"}
OverlapDates == {EndDate - 1, EndDate}

\* a call before its first statement
Pending(op, symbol, amount) ==
    [op |-> op, symbol |-> symbol, amount |-> amount, at |-> "ready",
     found |-> <<>>, appended |-> FALSE]

\* the ledgers the calls start from: registered, or with one stock buy
OverlapLedgers ==
    {register_agent(<<>>),
     buy(register_agent(<<>>),
         [SIGNATURE |-> Signature, TODAY_DATE |-> EndDate, IF_TRADE |-> FALSE],
         "ZS", 1).ledger}

InitOverlap ==
    /\ ledger \in OverlapLedgers
    /\ \E d \in OverlapDates :
           config = [SIGNATURE |-> Signature, TODAY_DATE |-> d,
                     IF_TRADE |-> FALSE]
    /\ asset_type = "stock"
    /\ trading_dates = <<>>
    /\ pc = "session"
    /\ no_trade = <<>>
    /\ hour = FirstHour
    /\ session_start = Len(ledger)
    /\ \E a, b \in {Pending(op, symbol, amount) :
                       op \in TradeOps, symbol \in OverlapSymbols,
                       amount \in Amounts} :
           last = [op |-> "overlap", start |-> ledger, calls |-> <<a, b>>]

\* get_latest_position at the beginning of the tool function: the call now
\* holds what the file held at that moment
ReadLatest(i) ==
    /\ last.op = "overlap"
    /\ last.calls[i].at = "ready"
    /\ last' = [last EXCEPT !.calls[i].at = "read", !.calls[i].found = ledger]
    /\ UNCHANGED <<ledger, config, asset_type, trading_dates, pc, no_trade,
                   hour, session_start>>

\* the rest of the tool function: the checks and the new positions are
\* computed from what was read, and the line is appended to the file as it
\* is now
AppendEntry(i) ==
    /\ last.op = "overlap"
    /\ last.calls[i].at = "read"
    /\ LET call == last.calls[i]
           out == tool(call.op, call.found, config, call.symbol, call.amount)
           wrote == Len(out.ledger) = Len(call.found) + 1
       IN  /\ ledger' = IF wrote
                        THEN Append(ledger, out.ledger[Len(out.ledger)])
                        ELSE ledger
           /\ config' = out.config
           /\ last' = [last EXCEPT !.calls[i].at = "done",
                                   !.calls[i].appended = wrote]
    /\ UNCHANGED <<asset_type, trading_dates, pc, no_trade, hour,
                   session_start>>

NextOverlap == \E i \in {1, 2} : ReadLatest(i) \/ AppendEntry(i)

SpecOverlap == InitOverlap /\ [][NextOverlap]_vars

BothDone ==
    last.op = "overlap" /\ \A i \in {1, 2} : last.calls[i].at = "done"
\* the ledger that call i and then call j, one after the other, leave
InOrder(i, j) ==
    LET first == tool(last.calls[i].op, last.start, config,
                      last.calls[i].symbol, last.calls[i].amount)
    IN  tool(last.calls[j].op, first.ledger, config,
             last.calls[j].symbol, last.calls[j].amount).ledger
\* both calls read the file before either appended, and both appended
Overlapped ==
    /\ last.calls[1].found = last.calls[2].found
    /\ last.calls[1].appended /\ last.calls[2].appended

\* C35: trade operations on one ledger are serializable: when two buy/sell
\* calls of one signature overlap, each reading the latest snapshot and
\* then appending, the ledger they leave is the ledger that the two calls
\* leave in one of the two sequential orders; no two entries share an id
\* and neither trade's effect on the holdings is lost.
C35_Serializable ==
    BothDone =>
        /\ ledger = InOrder(1, 2) \/ ledger = InOrder(2, 1)
        /\ \A i, j \in WithId(ledger) : i # j => ledger[i].id # ledger[j].id

\* C35 for the calls that did not overlap
C35_OneAfterTheOther ==
    (BothDone /\ ~Overlapped) =>
        ledger = InOrder(1, 2) \/ ledger = InOrder(2, 1)

\* two overlapping stock buys: two entries with one id, one purchase lost
C35_DuplicateId ==
    /\ BothDone /\ Overlapped
    /\ last.calls[1].op = "buy" /\ last.calls[2].op = "buy"
    /\ Len(ledger) = Len(last.start) + 2
    /\ ledger[Len(ledger)].id = ledger[Len(ledger) - 1].id
    /\ ledger[Len(ledger)].positions = ledger[Len(ledger) - 1].positions

----------------------------------------------------------------------------
(* The tools called with any numeric quantity.  The tool functions take   *)
(* "amount: int", "amount: float", "contracts: float" and test nothing    *)
(* about the sign.                                                        *)

Quantities == {-2, -1, 0, 1, 2}
QuantitySymbols == {"ZS", "ETH"}

InitQuantities ==
    /\ ledger = register_agent(<<>>)
    /\ \E d \in {EndDate - 1, EndDate} :
           config = [SIGNATURE |-> Signature, TODAY_DATE |-> d,
                     IF_TRADE |-> FALSE]
    /\ asset_type = "stock"
    /\ trading_dates = <<>>
    /\ pc = "idle"
    /\ no_trade = <<>>
    /\ last = NoCall
    /\ hour = FirstHour
    /\ session_start = 0

QuantityCall ==
    \E op \in TradeOps, symbol \in QuantitySymbols,
       amount \in Quantities :
        LET out == tool(op, ledger, config, symbol, amount) IN
        /\ Len(ledger) < MaxLedger
        /\ ledger' = out.ledger
        /\ config' = out.config
        /\ last' = Call(op, symbol, amount, out)
        /\ UNCHANGED <<asset_type, trading_dates, pc, no_trade, hour,
                       session_start>>

NextQuantities == QuantityCall

SpecQuantities == InitQuantities /\ [][NextQuantities]_vars

NonNegative(positions) == \A x \in DOMAIN positions : positions[x] >= 0

\* C36: no buy or sell call with a quantity <= 0 appends a snapshot with
\* negative CASH or a negative holding of a symbol.
C36_NonPositiveQuantities ==
    (Called /\ Appended /\ last.amount <= 0) => NonNegative(Written.positions)

\* with a quantity >= 0 a call that read non-negative holdings appends
\* non-negative holdings
C36_NonNegativeQuantities ==
    (Called /\ Appended /\ last.amount >= 0 /\ NonNegative(Held))
        => NonNegative(Written.positions)

\* a sell of a negative quantity that leaves negative CASH
C36_NegativeCash ==
    /\ Called /\ Appended /\ last.op \in SellOps /\ last.amount < 0
    /\ NonNegative(Held)
    /\ Written.positions["CASH"] < 0

\* a stock buy of a negative quantity that leaves a negative holding
C36_NegativeHolding ==
    /\ Called /\ Appended /\ last.op = "buy" /\ last.amount = -1
    /\ NonNegative(Held)
    /\ Written.positions[last.symbol] = -1

\* C37: a successful buy or sell of symbol s changes only positions["CASH"]
\* and positions[s]: in the appended snapshot every other symbol has the
\* quantity it had in the latest snapshot the call read, the keys other
\* than s are the same, and s has an entry, also when it was sold down
\* to 0.
C37_FrameOfTrade ==
    (Called /\ Appended) =>
        /\ \A x \in DOMAIN Held \ {"CASH", last.symbol} :
               /\ x \in DOMAIN Written.positions
               /\ Written.positions[x] = Held[x]
        /\ DOMAIN Written.positions \ {last.symbol}
               = DOMAIN Held \ {last.symbol}
        /\ last.symbol \in DOMAIN Written.positions

\* a symbol sold down to 0 beside another symbol
C37_Witness ==
    /\ Called /\ Appended /\ last.op \in SellOps
    /\ Held[last.symbol] = last.amount
    /\ Written.positions[last.symbol] = 0
    /\ \E x \in DOMAIN Held \ {"CASH", last.symbol} :
           Written.positions[x] = Held[x]

SessionStarts == pc = "loop" /\ pc' = "session"

\* C38: the trade-occurred flag IF_TRADE is false at the start of every
\* session: the session-end handler resets it on both of its branches, so
\* a trade made in one session does not suppress the no-trade marker of a
\* later session.
C38_FlagFalseAtSessionStart ==
    [][SessionStarts => ~config.IF_TRADE]_vars

\* the handler leaves the flag false, and a session that follows a session
\* that ended normally starts with the flag false
C38_HandlerResetsFlag ==
    [][/\ last'.op = "session_end" => ~config'.IF_TRADE
       /\ (SessionStarts /\ last.op = "session_end") => ~config.IF_TRADE]_vars

----------------------------------------------------------------------------
(* A run that fails and is started again: run_date_range hour by hour,    *)
(* with the date and hour of the session that raised kept in last until   *)
(* the next run_date_range.                                               *)

\* a step of an hourly session raises: run_date_range re-raises and the run
\* is over, part of the way through the hours of its date
HourlySessionRaises ==
    /\ pc = "session"
    /\ pc' = "idle"
    /\ last' = [op |-> "raised", date |-> Head(trading_dates), hour |-> hour]
    /\ trading_dates' = <<>>
    /\ hour' = FirstHour
    /\ session_start' = 0
    /\ UNCHANGED <<ledger, config, asset_type, no_trade>>

NextRestart ==
    \/ RunDateRange
    \/ StartSession
    \/ RunTrade
    \/ EndHourlySession
    \/ HourlySessionRaises

SpecRestart == Init /\ [][NextRestart]_vars

RestartsAfterFailure == pc = "idle" /\ last.op = "raised" /\ last' = NoCall

TradeAppendedFor(d) == \E i \in 1..Len(ledger) : ledger[i].date = d

ReturnedAgain(d) == \E i \in 1..Len(trading_dates') : trading_dates'[i] = d

\* C39: after a failure partway through the hourly sessions of date D, a
\* restarted run_date_range still processes D's remaining sessions: D is
\* among the dates the restarted run goes through, hour by hour from D's
\* first hour, even when a trade for D was already appended to the ledger
\* before the failure.
C39_RestartResumesDate ==
    [][RestartsAfterFailure =>
           (ReturnedAgain(last.date) /\ hour' <= last.hour)]_vars

\* when no trade for D was appended before the failure the restarted run
\* goes through D, from D's first hour
C39_ResumesWithoutTrade ==
    [][(RestartsAfterFailure /\ ~TradeAppendedFor(last.date)) =>
           (ReturnedAgain(last.date) /\ hour' = FirstHour)]_vars

\* no run_date_range returns a date for which the ledger has an entry: a
\* date skipped by the restarted run is skipped by every later run
C39_DateSkippedForGood ==
    [][(pc = "idle" /\ ledger # <<>>) =>
           \A i \in 1..Len(trading_dates') :
               trading_dates'[i] > MaxDateOf(ledger)]_vars

\* the run failed at a date for which a trade was appended, before the last
\* of that date's hours
C39_FailedAfterTrade ==
    /\ pc = "idle"
    /\ last.op = "raised"
    /\ last.hour < LastHour
    /\ TradeAppendedFor(last.date)

====
